---- MODULE Spec2Model ----
(***************************************************************************)
(* Door access-control core of the smart-home backend: the single Door     *)
(* row, the RfidCard table, the DoorAccessLog table, the HTTP door routes  *)
(* and the MQTT router (door.service.js, mqtt.service.js, door routes),    *)
(* and the FailedAttemptCounter state machine of the property tests.       *)
(***************************************************************************)
EXTENDS Integers, Sequences, FiniteSets, TLC

(* ------------------------------ bounds --------------------------------- *)
MaxLog == 1
MaxCardId == 2
MaxAttempts == 9

(* --------------------------- fixed universe ---------------------------- *)
\* rows of the User table (ids are autoincrement integers, usernames unique)
Users == {1, 2}
\* an id that names no row of the User table
GhostUser == 3
NoUser == 0
Null == "null"

Username(u) == IF u = 1 THEN "alice" ELSE IF u = 2 THEN "bob" ELSE Null

\* UIDs as the card reader reports them
RawUids == {"ab", "CD"}

\* String.prototype.toUpperCase on the strings the model uses
ToUpperCase(s) == IF s = "ab" THEN "AB" ELSE s

\* sha256(input): hex digest; injective on the strings the model uses and
\* never equal to its input
sha256(input) == "sha256(" \o input \o ")"

DefaultPin == "1234"

\* PINs as typed: sequences of characters
Digits == {"0", "1", "2", "3", "4", "5", "6", "7", "8", "9"}

PinInputs ==
  {<<"1", "2", "3", "4">>, <<"0", "0", "0", "0">>, <<"9", "8", "7", "6">>,
   <<>>, <<"1", "2", "3">>, <<"1", "2", "3", "4", "5">>,
   <<"1", "2", "a", "4">>, <<"a", "b", "c", "d">>}

RECURSIVE Str(_)
\* the string made of the characters of chars
Str(chars) == IF chars = <<>> THEN "" ELSE chars[1] \o Str(Tail(chars))

(* ------------------------------- state --------------------------------- *)
VARIABLES
  doors,          \* Door table, in creation order
  cards,          \* RfidCard table
  nextCardId,     \* RfidCard AUTO_INCREMENT
  log,            \* DoorAccessLog table, in insertion order
  now,            \* CURRENT_TIMESTAMP(3) at the last write to the log
  outbox,         \* MQTT messages published by the last handler, in order
  alerts,         \* Alert rows created by the last handler, in order
  pushes,         \* push notifications sent by the last handler, in order
  last,           \* the last handler run: its input and its response
  count,          \* FailedAttemptCounter.count
  attemptResults, \* the sequence of results fed to the counter
  pos,            \* how many of attemptResults have been recorded
  pinAuth,        \* a keypad session: stored digest, RFID flag, entry, result
  hashed,         \* the inputs the last PIN change passed to sha256, in order
  inflight,       \* the handlers suspended at an await, by task slot
  users,          \* User table: the ids of its rows
  history,        \* the page returned by the last GET /history
  time,           \* Date.now()
  deviceLastSeen, \* the Map deviceLastSeen, in insertion order
  sweeps,         \* the runs of checkOfflineDevices, by timer slot
  offlineSent     \* offline notifications per device since its last heartbeat

doorVars == <<doors, cards, nextCardId, log, now, outbox, alerts, pushes, last>>
counterVars == <<count, attemptResults, pos>>
pinVars == <<pinAuth, hashed>>
trackVars == <<time, deviceLastSeen, sweeps, offlineSent>>
restVars == <<users, history, trackVars>>
vars == <<doors, cards, nextCardId, log, now, outbox, alerts, pushes, last,
          count, attemptResults, pos, pinAuth, hashed, inflight,
          users, history, time, deviceLastSeen, sweeps, offlineSent>>

(* --------------------------- Door table -------------------------------- *)
NewDoor(pin) ==
  [id |-> 1, pinHash |-> sha256(pin), isOnline |-> FALSE, lastSeen |-> -1,
   enrollmentMode |-> FALSE, enrollmentUserId |-> NoUser]

\* getOrCreateDoor(pin = '1234'): the Door table after the call; the door
\* returned is its first row
getOrCreateDoor(ds) == IF ds = <<>> THEN <<NewDoor(DefaultPin)>> ELSE ds

\* prisma.door.update({ where: { id }, data: { enrollmentMode, enrollmentUserId } })
SetEnrollment(ds, id, mode, userId) ==
  [i \in 1..Len(ds) |->
     IF ds[i].id = id
     THEN [ds[i] EXCEPT !.enrollmentMode = mode, !.enrollmentUserId = userId]
     ELSE ds[i]]

(* --------------------------- RfidCard table ---------------------------- *)
\* unique indexes RfidCard_userId_key, RfidCard_uid_key, RfidCard_uidHash_key
\* and the foreign key RfidCard_userId_fkey
CanCreateCard(cs, userId, uid, uidHash) ==
  /\ userId \in users
  /\ \A c \in cs : c.userId # userId /\ c.uid # uid /\ c.uidHash # uidHash

NewCard(id, doorId, userId, uid, uidHash) ==
  [id |-> id, doorId |-> doorId, userId |-> userId, uid |-> uid,
   uidHash |-> uidHash, status |-> "ACTIVE"]

\* prisma.rfidCard.findFirst without orderBy: the matching row of lowest id
FindFirst(rows) == CHOOSE c \in rows : \A d \in rows : c.id <= d.id

\* an update that writes no status
RevokeCardKeepStatus(cs, id) == cs

\* prisma.rfidCard.update({ where: { id }, data: { status: 'REVOKED' } })
RevokeCard(cs, id) ==
  {IF c.id = id THEN [c EXCEPT !.status = "REVOKED"] ELSE c : c \in cs}

ActiveCardsOf(cs, userId) == {c \in cs : c.userId = userId /\ c.status = "ACTIVE"}

(* ------------------------- DoorAccessLog table ------------------------- *)
\* prisma.doorAccessLog.create: timestamp defaults to CURRENT_TIMESTAMP
LogEntry(doorId, userId, event, rfidUid, method, t) ==
  [doorId |-> doorId, userId |-> userId, event |-> event, rfidUid |-> rfidUid,
   method |-> method, timestamp |-> t]

\* the clock reading at the next write to the log: later than the reading of
\* the write before it
Clock == {now + 1}

(* ---------------- door.service.js: PIN --------------------------------- *)
\* updateDoorPin that never looks at the current PIN
updateDoorPinUnchecked(newPin, currentPin) ==
  LET ds == getOrCreateDoor(doors) IN
  [threw |-> FALSE, error |-> Null,
   doors |-> [ds EXCEPT ![1].pinHash = sha256(Str(newPin))],
   hashed |-> <<Str(newPin)>>]

\* updateDoorPin(newPin, currentPin): [threw, error, doors, hashed], hashed
\* the inputs it passed to sha256
updateDoorPin(newPin, currentPin) ==
  LET ds == getOrCreateDoor(doors)
      made == IF doors = <<>> THEN <<DefaultPin>> ELSE <<>>
      currentPinHash == sha256(Str(currentPin))
  IN
  IF ds[1].pinHash # currentPinHash
  THEN [threw |-> TRUE, error |-> "wrong_current_pin", doors |-> ds,
        hashed |-> made \o <<Str(currentPin)>>]
  ELSE [threw |-> FALSE, error |-> Null,
        doors |-> [ds EXCEPT ![1].pinHash = sha256(Str(newPin))],
        hashed |-> made \o <<Str(currentPin), Str(newPin)>>]

(* ---------------- door.service.js: enrollment flow --------------------- *)
\* startEnrollment keeping the target of an enrollment already under way
startEnrollmentKeepTarget(userId) ==
  LET ds == getOrCreateDoor(doors) IN
  IF userId \notin users
  THEN [threw |-> TRUE, error |-> "user_not_found", username |-> Null,
        doors |-> ds]
  ELSE [threw |-> FALSE, error |-> Null, username |-> Username(userId),
        doors |-> IF ds[1].enrollmentMode THEN ds
                  ELSE SetEnrollment(ds, ds[1].id, TRUE, userId)]

\* startEnrollment(userId): [threw, error, username, doors]
startEnrollment(userId) ==
  LET ds == getOrCreateDoor(doors) IN
  IF userId \notin users
  THEN [threw |-> TRUE, error |-> "user_not_found", username |-> Null,
        doors |-> ds]
  ELSE [threw |-> FALSE, error |-> Null, username |-> Username(userId),
        doors |-> SetEnrollment(ds, ds[1].id, TRUE, userId)]

\* cancelEnrollment without its update of the Door row
cancelEnrollmentNoUpdate == getOrCreateDoor(doors)

\* cancelEnrollment putting the default PIN back as well
cancelEnrollmentResetPin ==
  LET ds == getOrCreateDoor(doors) IN
  [SetEnrollment(ds, ds[1].id, FALSE, NoUser)
     EXCEPT ![1].pinHash = sha256(DefaultPin)]

\* cancelEnrollment(): the Door table after the call
cancelEnrollment ==
  LET ds == getOrCreateDoor(doors) IN SetEnrollment(ds, ds[1].id, FALSE, NoUser)

\* getEnrollmentStatus(): { active, userId }
getEnrollmentStatus(ds) ==
  IF ds = <<>> \/ ~ds[1].enrollmentMode
  THEN [active |-> FALSE, userId |-> NoUser]
  ELSE [active |-> TRUE, userId |-> ds[1].enrollmentUserId]

\* the holder of the digest is not looked up
NoConflictingCards(cs, uidHash, userId) == {}

\* the rows matched by findFirst({ uidHash, status: 'ACTIVE',
\* userId: { not: userId } })
ConflictingCards(cs, uidHash, userId) ==
  {c \in cs : c.uidHash = uidHash /\ c.status = "ACTIVE" /\ c.userId # userId}

\* the cards of other users that share the digest are kept
KeepByUid(cs, uidHash, userId) == cs

\* the table after deleteMany({ uidHash, userId: { not: userId } })
DeleteByUid(cs, uidHash, userId) ==
  {c \in cs : ~(c.uidHash = uidHash /\ c.userId # userId)}

\* processEnrollmentScan(uid), run at time t:
\*   [threw, success, error, username, doors, cards, nextCardId, log]
processEnrollmentScan(uid, t) ==
  IF doors = <<>> \/ ~doors[1].enrollmentMode
     \/ doors[1].enrollmentUserId = NoUser
  THEN [threw |-> FALSE, success |-> FALSE, error |-> "not_in_enrollment_mode",
        username |-> Null, doors |-> doors, cards |-> cards,
        nextCardId |-> nextCardId, log |-> log]
  ELSE
    LET door == doors[1]
        userId == door.enrollmentUserId
        uidUpper == ToUpperCase(uid)
        uidHash == sha256(uidUpper)
        existing == ConflictingCards(cards, uidHash, userId)
        afterUid == DeleteByUid(cards, uidHash, userId)
        afterUser == {c \in afterUid : c.userId # userId}
        idle == SetEnrollment(doors, door.id, FALSE, NoUser)
    IN
    IF existing # {}
    THEN [threw |-> FALSE, success |-> FALSE,
          error |-> "card_assigned_to:" \o Username(FindFirst(existing).userId),
          username |-> Null, doors |-> idle, cards |-> cards,
          nextCardId |-> nextCardId, log |-> log]
    ELSE IF ~CanCreateCard(afterUser, userId, uidUpper, uidHash)
    THEN [threw |-> TRUE, success |-> FALSE, error |-> "constraint_failed",
          username |-> Null, doors |-> doors, cards |-> afterUser,
          nextCardId |-> nextCardId, log |-> log]
    ELSE [threw |-> FALSE, success |-> TRUE, error |-> Null,
          username |-> Username(userId), doors |-> idle,
          cards |-> afterUser \cup
                    {NewCard(nextCardId, door.id, userId, uidUpper, uidHash)},
          nextCardId |-> nextCardId + 1,
          log |-> Append(log, LogEntry(door.id, userId, "enrollment_success",
                                       uidUpper, "enrollment", t))]

(* ---------------- door.service.js: card management --------------------- *)
\* getUserRfidStatus(userId).hasCard
getUserRfidStatus(userId) == ActiveCardsOf(cards, userId) # {}

\* revokeUserCard that, finding no ACTIVE card, drops the user's other cards
\* before it throws
revokeUserCardPurging(userId) ==
  LET found == ActiveCardsOf(cards, userId) IN
  IF found = {}
  THEN [threw |-> TRUE, error |-> "user_has_no_card",
        cards |-> {c \in cards : c.userId # userId}]
  ELSE [threw |-> FALSE, error |-> Null,
        cards |-> RevokeCard(cards, FindFirst(found).id)]

\* revokeUserCard(userId): [threw, error, cards]
revokeUserCard(userId) ==
  LET found == ActiveCardsOf(cards, userId) IN
  IF found = {}
  THEN [threw |-> TRUE, error |-> "user_has_no_card", cards |-> cards]
  ELSE [threw |-> FALSE, error |-> Null,
        cards |-> RevokeCard(cards, FindFirst(found).id)]

\* reportLostCard logging the report and leaving the card ACTIVE
reportLostCardNoRevoke(userId, t) ==
  LET found == ActiveCardsOf(cards, userId)
      ds == getOrCreateDoor(doors)
  IN
  IF found = {}
  THEN [threw |-> TRUE, error |-> "no_active_card", uid |-> Null,
        doors |-> doors, cards |-> cards, log |-> log]
  ELSE LET card == FindFirst(found) IN
       [threw |-> FALSE, error |-> Null, uid |-> card.uid, doors |-> ds,
        cards |-> cards,
        log |-> Append(log, LogEntry(ds[1].id, userId, "card_reported_lost",
                                     card.uid, "user_report", t))]

\* reportLostCard(userId), run at time t: [threw, error, uid, doors, cards, log]
reportLostCard(userId, t) ==
  LET found == ActiveCardsOf(cards, userId)
      ds == getOrCreateDoor(doors)
  IN
  IF found = {}
  THEN [threw |-> TRUE, error |-> "no_active_card", uid |-> Null,
        doors |-> doors, cards |-> cards, log |-> log]
  ELSE LET card == FindFirst(found) IN
       [threw |-> FALSE, error |-> Null, uid |-> card.uid, doors |-> ds,
        cards |-> RevokeCard(cards, card.id),
        log |-> Append(log, LogEntry(ds[1].id, userId, "card_reported_lost",
                                     card.uid, "user_report", t))]

\* addRfidCard without its two lookups, on a table without unique indexes
addRfidCardUnchecked(userId, uid) ==
  LET ds == getOrCreateDoor(doors) IN
  [threw |-> FALSE, error |-> Null, doors |-> ds,
   cards |-> cards \cup {NewCard(nextCardId, ds[1].id, userId,
                                 ToUpperCase(uid), sha256(ToUpperCase(uid)))},
   nextCardId |-> nextCardId + 1]

\* addRfidCard giving the user's card row back its ACTIVE status
addRfidCardReactivating(userId, uid) ==
  [threw |-> FALSE, error |-> Null, doors |-> getOrCreateDoor(doors),
   cards |-> {IF c.userId = userId THEN [c EXCEPT !.status = "ACTIVE"] ELSE c :
                c \in cards},
   nextCardId |-> nextCardId]

\* addRfidCard(userId, uid): [threw, error, doors, cards, nextCardId]
addRfidCard(userId, uid) ==
  LET ds == getOrCreateDoor(doors)
      uidUpper == ToUpperCase(uid)
      uidHash == sha256(uidUpper)
  IN
  IF ActiveCardsOf(cards, userId) # {}
  THEN [threw |-> TRUE, error |-> "user_already_has_card", doors |-> ds,
        cards |-> cards, nextCardId |-> nextCardId]
  ELSE IF {c \in cards : c.uidHash = uidHash /\ c.status = "ACTIVE"} # {}
  THEN [threw |-> TRUE, error |-> "uid_in_use", doors |-> ds,
        cards |-> cards, nextCardId |-> nextCardId]
  ELSE IF ~CanCreateCard(cards, userId, uidUpper, uidHash)
  THEN [threw |-> TRUE, error |-> "constraint_failed", doors |-> ds,
        cards |-> cards, nextCardId |-> nextCardId]
  ELSE [threw |-> FALSE, error |-> Null, doors |-> ds,
        cards |-> cards \cup
                  {NewCard(nextCardId, ds[1].id, userId, uidUpper, uidHash)},
        nextCardId |-> nextCardId + 1]

\* removeRfidCard(cardId): [threw, cards]; update of a missing row throws
removeRfidCard(cardId) ==
  IF \E c \in cards : c.id = cardId
  THEN [threw |-> FALSE, cards |-> RevokeCard(cards, cardId)]
  ELSE [threw |-> TRUE, cards |-> cards]

(* ---------------- door.service.js: authentication ---------------------- *)
\* authenticateRfid with the status test inverted
authenticateRfidInverted(uidHash) ==
  LET found == {c \in cards : c.uidHash = uidHash} IN
  IF found = {}
  THEN [allowed |-> FALSE, reason |-> "unknown_card", userId |-> NoUser,
        username |-> Null]
  ELSE LET card == FindFirst(found) IN
       IF card.status # "REVOKED"
       THEN [allowed |-> FALSE, reason |-> "card_revoked",
             userId |-> card.userId, username |-> Username(card.userId)]
       ELSE [allowed |-> TRUE, reason |-> Null, userId |-> card.userId,
             username |-> Username(card.userId)]

\* authenticateRfid letting a digest through when no card row matches it
authenticateRfidUnknownAllowed(uidHash) ==
  LET found == {c \in cards : c.uidHash = uidHash} IN
  IF found = {}
  THEN [allowed |-> TRUE, reason |-> Null, userId |-> NoUser,
        username |-> Null]
  ELSE LET card == FindFirst(found) IN
       IF card.status = "REVOKED"
       THEN [allowed |-> FALSE, reason |-> "card_revoked",
             userId |-> card.userId, username |-> Username(card.userId)]
       ELSE [allowed |-> TRUE, reason |-> Null, userId |-> card.userId,
             username |-> Username(card.userId)]

\* authenticateRfid(uidHash): { allowed, reason, userId, username }
authenticateRfid(uidHash) ==
  LET found == {c \in cards : c.uidHash = uidHash} IN
  IF found = {}
  THEN [allowed |-> FALSE, reason |-> "unknown_card", userId |-> NoUser,
        username |-> Null]
  ELSE LET card == FindFirst(found) IN
       IF card.status = "REVOKED"
       THEN [allowed |-> FALSE, reason |-> "card_revoked",
             userId |-> card.userId, username |-> Username(card.userId)]
       ELSE [allowed |-> TRUE, reason |-> Null, userId |-> card.userId,
             username |-> Username(card.userId)]

\* getUserByRfidHash(uidHash): the owner's id, or NoUser
getUserByRfidHash(uidHash) ==
  LET found == {c \in cards : c.uidHash = uidHash /\ c.status = "ACTIVE"} IN
  IF found = {} THEN NoUser ELSE FindFirst(found).userId

\* getRfidWhitelist(): the (uidHash, username) pairs of the door's ACTIVE cards
getRfidWhitelist(ds, cs) ==
  LET door == getOrCreateDoor(ds)[1] IN
  {[uidHash |-> c.uidHash, username |-> Username(c.userId)] :
     c \in {d \in cs : d.doorId = door.id /\ d.status = "ACTIVE"}}

\* createAccessLog({ event, rfidUid, method, userId = null }), run at time t:
\*   [doors, log]
createAccessLog(event, rfidUid, method, userId, t) ==
  LET ds == getOrCreateDoor(doors)
      uid == IF userId = NoUser /\ rfidUid # Null
             THEN getUserByRfidHash(sha256(ToUpperCase(rfidUid)))
             ELSE userId
  IN [doors |-> ds,
      log |-> Append(log, LogEntry(ds[1].id, uid, event, rfidUid, method, t))]

(* ---------------- alert.service.js ------------------------------------- *)
\* createAlert({ type, level, message }): the Alert row, which is also the
\* payload published on home/alert/new
AlertRow(type, level, message) ==
  [type |-> type, level |-> level, message |-> message]

AlertMsg(type, level, message) ==
  [topic |-> "home/alert/new", type |-> type, level |-> level,
   message |-> message]

(* ---------------- messages and responses ------------------------------- *)
WhitelistMsg(ds, cs) ==
  [topic |-> "door/config/rfid", action |-> "update_rfid",
   whitelist |-> getRfidWhitelist(ds, cs)]

EnrollmentResultMsg(success, message, username) ==
  [topic |-> "door/enrollment/result", success |-> success,
   message |-> message, username |-> username]

RfidResultMsg(uid, allow, username, reason) ==
  [topic |-> "door/rfid/result", uid |-> uid, allow |-> allow,
   username |-> username, reason |-> reason]

\* the last handler run and what it answered: uid is the UID it was given
\* (if any), status the HTTP status (0 for a device message)
Resp(op, uid, status, success, error) ==
  [op |-> op, uid |-> uid, status |-> status, success |-> success,
   error |-> error]

\* payloads of door/rfid/check and door/rfid/auth: { uid } or { uidHash } or
\* neither
RfidPayloads ==
  {[uid |-> u, uidHash |-> Null] : u \in RawUids} \cup
  {[uid |-> Null, uidHash |-> sha256("AB")], [uid |-> Null, uidHash |-> Null]}

\* points of handleRfidAuth at which the store or the push service may fail
Faults == {"auth", "log", "push"}

(* ---------------- mqtt.service.js: RFID handlers ----------------------- *)
\* handleEnrollmentScan(payload), run at time t:
\*   [success, error, doors, cards, nextCardId, log, outbox, pushes]
handleEnrollmentScan(payload, t) ==
  IF payload.uid = Null
  THEN [success |-> FALSE, error |-> "invalid_uid", doors |-> doors,
        cards |-> cards, nextCardId |-> nextCardId, log |-> log,
        outbox |-> <<EnrollmentResultMsg(FALSE, "invalid_uid", Null)>>,
        pushes |-> <<>>]
  ELSE
    LET r == processEnrollmentScan(payload.uid, t) IN
    IF r.threw
    THEN [success |-> FALSE, error |-> r.error, doors |-> r.doors,
          cards |-> r.cards, nextCardId |-> r.nextCardId, log |-> r.log,
          outbox |-> <<EnrollmentResultMsg(FALSE, r.error, Null)>>,
          pushes |-> <<>>]
    ELSE IF ~r.success
    THEN [success |-> FALSE, error |-> r.error, doors |-> r.doors,
          cards |-> r.cards, nextCardId |-> r.nextCardId, log |-> r.log,
          outbox |-> <<EnrollmentResultMsg(FALSE, r.error, Null)>>,
          pushes |-> <<>>]
    ELSE [success |-> TRUE, error |-> Null, doors |-> r.doors,
          cards |-> r.cards, nextCardId |-> r.nextCardId, log |-> r.log,
          outbox |-> <<EnrollmentResultMsg(TRUE, "enrolled:" \o r.username,
                                           r.username),
                       WhitelistMsg(r.doors, r.cards)>>,
          pushes |-> <<"rfid_enrolled:" \o r.username>>]

\* the UID hashed as received
AuthHashNoUpper(payload) ==
  IF payload.uidHash # Null THEN payload.uidHash ELSE sha256(payload.uid)

\* uidHash || doorService.sha256(uid.toUpperCase())
AuthHash(payload) ==
  IF payload.uidHash # Null THEN payload.uidHash
  ELSE sha256(ToUpperCase(payload.uid))

\* the method left undefined when the evaluation gives no reason
LogMethodNoDefault(result) == result.reason

\* result.reason || 'rfid'
LogMethod(result) == IF result.reason # Null THEN result.reason ELSE "rfid"

\* handleRfidAuth(payload), run at time t, with the step that fails (or
\* "none"):
\*   [success, error, doors, log, outbox, pushes]
handleRfidAuth(payload, fail, t) ==
  IF payload.uidHash = Null /\ payload.uid = Null
  THEN [success |-> FALSE, error |-> "invalid_request", doors |-> doors,
        log |-> log,
        outbox |-> <<RfidResultMsg("", FALSE, Null, "invalid_request")>>,
        pushes |-> <<>>]
  ELSE
    LET hash == AuthHash(payload)
        result == authenticateRfid(hash)
        reply == RfidResultMsg(payload.uid, result.allowed,
                               IF result.username # Null THEN result.username
                               ELSE "Unknown",
                               result.reason)
        written == createAccessLog(
                     IF result.allowed THEN "access_granted" ELSE "access_denied",
                     IF payload.uid # Null THEN payload.uid ELSE "HASHED",
                     LogMethod(result),
                     result.userId, t)
        notify == ~result.allowed /\ result.reason # "unknown_card"
        serverError == RfidResultMsg(IF payload.uid # Null THEN payload.uid
                                     ELSE "", FALSE, Null, "server_error")
    IN
    IF fail = "auth"
    THEN [success |-> FALSE, error |-> "server_error", doors |-> doors,
          log |-> log, outbox |-> <<serverError>>, pushes |-> <<>>]
    ELSE IF fail = "log"
    THEN [success |-> FALSE, error |-> "server_error", doors |-> doors,
          log |-> log, outbox |-> <<reply, serverError>>, pushes |-> <<>>]
    ELSE IF fail = "push" /\ notify
    THEN [success |-> FALSE, error |-> "server_error", doors |-> written.doors,
          log |-> written.log, outbox |-> <<reply, serverError>>,
          pushes |-> <<>>]
    ELSE [success |-> result.allowed, error |-> result.reason,
          doors |-> written.doors, log |-> written.log, outbox |-> <<reply>>,
          pushes |-> IF notify
                     THEN <<"access_denied:" \o result.username>>
                     ELSE <<>>]

(* ------------------------------ Init ----------------------------------- *)
NoResp == Resp("init", Null, 0, FALSE, Null)

\* GET /history not asked yet
NoHistory == [logs |-> <<>>, total |-> 0, page |-> 0, totalPages |-> 0]

\* the keys of deviceLastSeen: payload.deviceId of a heartbeat, and 'door'
Devices == {"esp32", "door"}

\* the timer slots in which checkOfflineDevices runs
Sweeps == {1, 2}

\* a timer slot in which no sweep runs
IdleSweep == [pc |-> "idle", now |-> 0, idx |-> 0, deviceId |-> Null]

InitDoor ==
  /\ doors = <<>>
  /\ cards = {}
  /\ nextCardId = 1
  /\ log = <<>>
  /\ now = 0
  /\ outbox = <<>>
  /\ alerts = <<>>
  /\ pushes = <<>>
  /\ last = NoResp
  /\ users = Users
  /\ history = NoHistory
  /\ time = 0
  /\ deviceLastSeen = <<>>
  /\ sweeps = [s \in Sweeps |-> IdleSweep]
  /\ offlineSent = [d \in Devices |-> 0]

\* simulatePinAuth's result before any entry
NoPinResult == [success |-> FALSE, shouldUnlock |-> FALSE, method |-> Null]

\* a keypad session with nothing entered yet
NewPinAuth(storedPinHash, rfidValidated) ==
  [storedPinHash |-> storedPinHash, rfidValidated |-> rfidValidated,
   inputPin |-> <<>>, entered |-> FALSE, result |-> NoPinResult]

\* a task slot in which no handler runs
IdleTask ==
  [op |-> "none", pc |-> "idle", uid |-> Null, userId |-> NoUser,
   confirm |-> FALSE, error |-> Null, sent |-> <<>>, doorId |-> 0]

Tasks == {1, 2}

InitIdle ==
  /\ pinAuth = NewPinAuth(sha256(DefaultPin), FALSE)
  /\ hashed = <<>>
  /\ inflight = [p \in Tasks |-> IdleTask]

Init ==
  /\ InitDoor
  /\ count = 0
  /\ attemptResults = <<>>
  /\ pos = 0
  /\ InitIdle

\* the model stops creating rows once the tables reach their bounds
WithinBounds == Len(log') <= MaxLog /\ nextCardId' <= MaxCardId + 1

\* the clock shown by the log: the time of its last write
Stamp(t) == now' = IF log' # log THEN t ELSE now

UserIdInputs == Users \cup {GhostUser}

(* ---------------- door routes (HTTP) ----------------------------------- *)
\* POST /enrollment/start without the look at the user's card
StartEnrollmentRouteUnconfirmed(userId, confirmReplace) ==
  LET r == startEnrollment(userId) IN
  /\ doors' = r.doors
  /\ IF r.threw
     THEN /\ last' = Resp("enrollment/start", Null, 400, FALSE, r.error)
          /\ outbox' = <<>>
     ELSE /\ last' = Resp("enrollment/start", Null, 200, TRUE, Null)
          /\ outbox' = <<[topic |-> "door/enrollment",
                          action |-> "start", userId |-> userId,
                          username |-> r.username]>>
  /\ alerts' = <<>>
  /\ pushes' = <<>>
  /\ UNCHANGED <<cards, nextCardId, log, now, counterVars, restVars, pinVars, inflight>>

\* POST /enrollment/start { userId, confirmReplace }
StartEnrollmentRoute(userId, confirmReplace) ==
  /\ IF getUserRfidStatus(userId) /\ ~confirmReplace
     THEN /\ last' = Resp("enrollment/start", Null, 409, FALSE,
                          "requireConfirmation")
          /\ outbox' = <<>>
          /\ UNCHANGED doors
     ELSE LET r == startEnrollment(userId) IN
          /\ doors' = r.doors
          /\ IF r.threw
             THEN /\ last' = Resp("enrollment/start", Null, 400,
                                  FALSE, r.error)
                  /\ outbox' = <<>>
             ELSE /\ last' = Resp("enrollment/start", Null, 200,
                                  TRUE, Null)
                  /\ outbox' = <<[topic |-> "door/enrollment",
                                  action |-> "start", userId |-> userId,
                                  username |-> r.username]>>
  /\ alerts' = <<>>
  /\ pushes' = <<>>
  /\ UNCHANGED <<cards, nextCardId, log, now, counterVars, restVars, pinVars, inflight>>

\* POST /enrollment/cancel
CancelEnrollmentRoute ==
  /\ doors' = cancelEnrollment
  /\ outbox' = <<[topic |-> "door/enrollment", action |-> "cancel",
                  userId |-> NoUser, username |-> Null]>>
  /\ last' = Resp("enrollment/cancel", Null, 200, TRUE, Null)
  /\ alerts' = <<>>
  /\ pushes' = <<>>
  /\ UNCHANGED <<cards, nextCardId, log, now, counterVars, restVars, pinVars, inflight>>

\* POST /rfid/report-lost, by the authenticated user, at time t
ReportLostRoute(userId, t) ==
  LET r == reportLostCard(userId, t) IN
  /\ doors' = r.doors
  /\ cards' = r.cards
  /\ log' = r.log
  /\ IF r.threw
     THEN /\ last' = Resp("rfid/report-lost", Null, 400, FALSE,
                          r.error)
          /\ outbox' = <<>>
          /\ alerts' = <<>>
          /\ pushes' = <<>>
     ELSE /\ last' = Resp("rfid/report-lost", r.uid, 200, TRUE,
                          Null)
          /\ outbox' = <<WhitelistMsg(r.doors, r.cards),
                         [topic |-> "home/rfid/lost", userId |-> userId,
                          username |-> Username(userId), cardUid |-> r.uid],
                         AlertMsg("door", "WARNING", "card_reported_lost")>>
          /\ alerts' = <<AlertRow("door", "WARNING", "card_reported_lost")>>
          /\ pushes' = <<"rfid_lost:" \o Username(userId)>>
  /\ Stamp(t)
  /\ UNCHANGED <<nextCardId, counterVars, restVars, pinVars, inflight>>
  /\ WithinBounds

\* POST /rfid { userId, uid }
AddRfidRoute(userId, uid) ==
  LET r == addRfidCard(userId, uid) IN
  /\ doors' = r.doors
  /\ cards' = r.cards
  /\ nextCardId' = r.nextCardId
  /\ IF r.threw
     THEN /\ last' = Resp("rfid/add", uid, 400, FALSE, r.error)
          /\ outbox' = <<>>
     ELSE /\ last' = Resp("rfid/add", uid, 201, TRUE, Null)
          /\ outbox' = <<WhitelistMsg(r.doors, r.cards)>>
  /\ alerts' = <<>>
  /\ pushes' = <<>>
  /\ UNCHANGED <<log, now, counterVars, restVars, pinVars, inflight>>
  /\ WithinBounds

\* POST /rfid/revoke/:userId
RevokeRoute(userId) ==
  LET r == revokeUserCard(userId) IN
  /\ cards' = r.cards
  /\ IF r.threw
     THEN /\ last' = Resp("rfid/revoke", Null, 400, FALSE,
                          r.error)
          /\ outbox' = <<>>
          /\ UNCHANGED doors
     ELSE /\ last' = Resp("rfid/revoke", Null, 200, TRUE, Null)
          /\ outbox' = <<WhitelistMsg(doors, r.cards)>>
          /\ doors' = getOrCreateDoor(doors)
  /\ alerts' = <<>>
  /\ pushes' = <<>>
  /\ UNCHANGED <<nextCardId, log, now, counterVars, restVars, pinVars, inflight>>

\* DELETE /rfid/:cardId
RemoveCardRoute(cardId) ==
  LET r == removeRfidCard(cardId) IN
  /\ cards' = r.cards
  /\ IF r.threw
     THEN /\ last' = Resp("rfid/delete", Null, 400, FALSE,
                          "record_not_found")
          /\ outbox' = <<>>
          /\ UNCHANGED doors
     ELSE /\ last' = Resp("rfid/delete", Null, 204, TRUE, Null)
          /\ outbox' = <<WhitelistMsg(doors, r.cards)>>
          /\ doors' = getOrCreateDoor(doors)
  /\ alerts' = <<>>
  /\ pushes' = <<>>
  /\ UNCHANGED <<nextCardId, log, now, counterVars, restVars, pinVars, inflight>>

(* ---------------- door routes: PIN ------------------------------------- *)
\* /^\d+$/.test(pin)
AllDigits(pin) == Len(pin) >= 1 /\ \A i \in 1..Len(pin) : pin[i] \in Digits

\* the route's test with the length left out
WellFormedPinAnyLength(pin) == ~(pin = <<>> \/ ~AllDigits(pin))

\* !(!pin || pin.length !== 4 || !/^\d+$/.test(pin))
WellFormedPin(pin) == ~(pin = <<>> \/ Len(pin) # 4 \/ ~AllDigits(pin))

PinConfigMsg(pinHash) ==
  [topic |-> "door/config/pin", action |-> "update_pin", pinHash |-> pinHash]

\* PATCH /pin { pin, currentPin }
PinChangeRoute(pin, currentPin) ==
  /\ IF ~WellFormedPin(currentPin) \/ ~WellFormedPin(pin)
     THEN /\ last' = Resp("pin", Null, 400, FALSE,
                          IF ~WellFormedPin(currentPin)
                          THEN "current_pin_format" ELSE "new_pin_format")
          /\ hashed' = <<>>
          /\ outbox' = <<>>
          /\ alerts' = <<>>
          /\ pushes' = <<>>
          /\ UNCHANGED doors
     ELSE LET r == updateDoorPin(pin, currentPin) IN
          /\ doors' = r.doors
          /\ IF r.threw
             THEN /\ last' = Resp("pin", Null, 401, FALSE, r.error)
                  /\ hashed' = r.hashed
                  /\ outbox' = <<>>
                  /\ alerts' = <<>>
                  /\ pushes' = <<>>
             ELSE /\ last' = Resp("pin", Null, 200, TRUE, Null)
                  /\ hashed' = r.hashed \o <<Str(pin)>>
                  /\ outbox' = <<PinConfigMsg(sha256(Str(pin))),
                                 AlertMsg("door", "INFO", "pin_changed")>>
                  /\ alerts' = <<AlertRow("door", "INFO", "pin_changed")>>
                  /\ pushes' = <<"pin_changed">>
  /\ UNCHANGED <<cards, nextCardId, log, now, counterVars, restVars, pinAuth, inflight>>

(* ---------------- MQTT router ------------------------------------------ *)
\* the authentication branch raising an alert itself on every denial
RunRfidAuthAlerting(op, payload, fail, t) ==
  LET h == handleRfidAuth(payload, fail, t) IN
  /\ doors' = h.doors
  /\ log' = h.log
  /\ outbox' = h.outbox
  /\ pushes' = h.pushes
  /\ alerts' = IF h.success THEN <<>>
               ELSE <<AlertRow("door", "CRITICAL", "failed_attempts")>>
  /\ last' = Resp(op, payload.uid, 0, h.success, h.error)
  /\ UNCHANGED <<cards, nextCardId>>

\* the authentication branch shared by door/rfid/check and door/rfid/auth
RunRfidAuth(op, payload, fail, t) ==
  LET h == handleRfidAuth(payload, fail, t) IN
  /\ doors' = h.doors
  /\ log' = h.log
  /\ outbox' = h.outbox
  /\ pushes' = h.pushes
  /\ alerts' = <<>>
  /\ last' = Resp(op, payload.uid, 0, h.success, h.error)
  /\ UNCHANGED <<cards, nextCardId>>

\* door/rfid/check handed to the enrollment handler whatever the door's mode
RfidCheckMsgAlwaysEnroll(payload, fail, t) ==
  LET h == handleEnrollmentScan(payload, t) IN
  /\ fail = "none"
  /\ doors' = h.doors
  /\ cards' = h.cards
  /\ nextCardId' = h.nextCardId
  /\ log' = h.log
  /\ outbox' = h.outbox
  /\ pushes' = h.pushes
  /\ alerts' = <<>>
  /\ last' = Resp("rfid/check:enroll", payload.uid, 0, h.success, h.error)
  /\ Stamp(t)
  /\ UNCHANGED <<counterVars, restVars, pinVars, inflight>>
  /\ WithinBounds

\* handleDoorAccessMessage('door/rfid/check', payload) at time t; fail names
\* the step of the authentication branch that fails, or is "none"
RfidCheckMsg(payload, fail, t) ==
  /\ IF getEnrollmentStatus(doors).active
     THEN LET h == handleEnrollmentScan(payload, t) IN
          /\ fail = "none"
          /\ doors' = h.doors
          /\ cards' = h.cards
          /\ nextCardId' = h.nextCardId
          /\ log' = h.log
          /\ outbox' = h.outbox
          /\ pushes' = h.pushes
          /\ alerts' = <<>>
          /\ last' = Resp("rfid/check:enroll", payload.uid, 0, h.success,
                          h.error)
     ELSE RunRfidAuth("rfid/check:auth", payload, fail, t)
  /\ Stamp(t)
  /\ UNCHANGED <<counterVars, restVars, pinVars, inflight>>
  /\ WithinBounds

\* handleDoorAccessMessage('door/rfid/auth', payload) at time t
RfidAuthMsg(payload, fail, t) ==
  /\ RunRfidAuth("rfid/auth", payload, fail, t)
  /\ Stamp(t)
  /\ UNCHANGED <<counterVars, restVars, pinVars, inflight>>
  /\ WithinBounds

\* the door/alarm branch that logs the alarm and tells nobody
DoorAlarmMsgSilent(reason, lastRfid, t) ==
  LET w == createAccessLog("alarm_triggered", lastRfid, reason, NoUser, t) IN
  /\ doors' = w.doors
  /\ log' = w.log
  /\ alerts' = <<>>
  /\ outbox' = <<>>
  /\ pushes' = <<>>
  /\ last' = Resp("alarm", lastRfid, 0, TRUE, reason)
  /\ Stamp(t)
  /\ UNCHANGED <<cards, nextCardId, counterVars, restVars, pinVars, inflight>>
  /\ WithinBounds

\* handleDoorAccessMessage('door/alarm', { reason, failCount, lastRfid }) at
\* time t
DoorAlarmMsg(reason, lastRfid, t) ==
  LET w == createAccessLog("alarm_triggered", lastRfid, reason, NoUser, t) IN
  /\ doors' = w.doors
  /\ log' = w.log
  /\ alerts' = <<AlertRow("door", "CRITICAL", "door_alarm:" \o reason)>>
  /\ outbox' = <<AlertMsg("door", "CRITICAL", "door_alarm:" \o reason)>>
  /\ pushes' = <<"door_alarm:" \o reason>>
  /\ last' = Resp("alarm", lastRfid, 0, TRUE, reason)
  /\ Stamp(t)
  /\ UNCHANGED <<cards, nextCardId, counterVars, restVars, pinVars, inflight>>
  /\ WithinBounds

AlarmReasons == {"too_many_failed_attempts"}

Next ==
  \/ \E u \in UserIdInputs, c \in BOOLEAN : StartEnrollmentRoute(u, c)
  \/ CancelEnrollmentRoute
  \/ \E u \in Users, t \in Clock : ReportLostRoute(u, t)
  \/ \E u \in Users, x \in RawUids : AddRfidRoute(u, x)
  \/ \E u \in Users : RevokeRoute(u)
  \/ \E id \in 1..MaxCardId : RemoveCardRoute(id)
  \/ \E p \in RfidPayloads, t \in Clock : RfidCheckMsg(p, "none", t)
  \/ \E p \in RfidPayloads, t \in Clock : RfidAuthMsg(p, "none", t)
  \/ \E r \in AlarmReasons, t \in Clock : DoorAlarmMsg(r, Null, t)

Spec == Init /\ [][Next]_vars

\* a door/access report whose push notification fails, the log entry being
\* lost with it
DoorAccessMsgPushFailsUnlogged(rfidUid, method, t) ==
  /\ doors' = getOrCreateDoor(doors)
  /\ log' = log
  /\ alerts' = <<>>
  /\ outbox' = <<>>
  /\ pushes' = <<>>
  /\ last' = Resp("access", rfidUid, 0, FALSE, "push_failed")
  /\ Stamp(t)
  /\ UNCHANGED <<cards, nextCardId, counterVars, restVars, pinVars, inflight>>
  /\ WithinBounds

\* handleDoorAccessMessage('door/access', { event: 'access_denied', rfidUid,
\* method }) at time t when pushService.sendToAll rejects: the entry was
\* created before the notification was tried
DoorAccessMsgPushFails(rfidUid, method, t) ==
  LET w == createAccessLog("access_denied", rfidUid, method, NoUser, t) IN
  /\ doors' = w.doors
  /\ log' = w.log
  /\ alerts' = <<>>
  /\ outbox' = <<>>
  /\ pushes' = <<>>
  /\ last' = Resp("access", rfidUid, 0, FALSE, "push_failed")
  /\ Stamp(t)
  /\ UNCHANGED <<cards, nextCardId, counterVars, restVars, pinVars, inflight>>
  /\ WithinBounds

\* handleDoorAccessMessage('door/alarm', { reason, lastRfid }) at time t when
\* pushService.sendToAll rejects: the entry and the alert were created
\* before the notification was tried
DoorAlarmMsgPushFails(reason, lastRfid, t) ==
  LET w == createAccessLog("alarm_triggered", lastRfid, reason, NoUser, t) IN
  /\ doors' = w.doors
  /\ log' = w.log
  /\ alerts' = <<AlertRow("door", "CRITICAL", "door_alarm:" \o reason)>>
  /\ outbox' = <<AlertMsg("door", "CRITICAL", "door_alarm:" \o reason)>>
  /\ pushes' = <<>>
  /\ last' = Resp("alarm", lastRfid, 0, FALSE, "push_failed")
  /\ Stamp(t)
  /\ UNCHANGED <<cards, nextCardId, counterVars, restVars, pinVars, inflight>>
  /\ WithinBounds

\* handleEnrollmentScan(payload) at time t when pushService.sendToAll
\* rejects after the card was enrolled: the result and the whitelist are
\* out, and the catch publishes a second door/enrollment/result
EnrollmentScanPushFails(payload, t) ==
  LET h == handleEnrollmentScan(payload, t) IN
  /\ getEnrollmentStatus(doors).active
  /\ h.success
  /\ doors' = h.doors
  /\ cards' = h.cards
  /\ nextCardId' = h.nextCardId
  /\ log' = h.log
  /\ outbox' = h.outbox \o <<EnrollmentResultMsg(FALSE, "push_failed", Null)>>
  /\ pushes' = <<>>
  /\ alerts' = <<>>
  /\ last' = Resp("rfid/check:enroll", payload.uid, 0, FALSE, "push_failed")
  /\ Stamp(t)
  /\ UNCHANGED <<counterVars, restVars, pinVars, inflight>>
  /\ WithinBounds

\* the same system when the store or the push service may fail while an
\* authentication message is handled
NextFault ==
  \/ \E u \in Users, x \in RawUids : AddRfidRoute(u, x)
  \/ \E u \in Users : RevokeRoute(u)
  \/ \E p \in RfidPayloads, t \in Clock : RfidAuthMsg(p, "none", t)
  \/ \E p \in RfidPayloads, f \in Faults, t \in Clock : RfidCheckMsg(p, f, t)
  \/ \E p \in RfidPayloads, f \in Faults, t \in Clock : RfidAuthMsg(p, f, t)
  \/ \E x \in {Null, "ab"}, t \in Clock :
       DoorAccessMsgPushFails(x, "invalid_pin", t)
  \/ \E t \in Clock :
       DoorAlarmMsgPushFails("too_many_failed_attempts", Null, t)
  \/ \E u \in Users : StartEnrollmentRoute(u, TRUE)
  \/ \E p \in RfidPayloads, t \in Clock : EnrollmentScanPushFails(p, t)

SpecFault == Init /\ [][NextFault]_vars

\* the door's handlers together with PATCH /pin
DoorPinInputs ==
  {<<"1", "2", "3", "4">>, <<"9", "8", "7", "6">>, <<"1", "2", "3">>}

NextDoor ==
  \/ Next
  \/ \E pin \in DoorPinInputs, currentPin \in DoorPinInputs :
       PinChangeRoute(pin, currentPin)

SpecDoor == Init /\ [][NextDoor]_vars

(* ---------------- device reports: door/access, home/door/state --------- *)
\* what a door/access message reports: { event, method }, both free-form
DeviceReports ==
  {[event |-> "access_granted", method |-> "pin"],
   [event |-> "access_denied", method |-> "invalid_pin"],
   [event |-> "door_forced", method |-> "physical_button"]}

\* the door/access branch notifying whatever the event reported
DoorAccessMsgAlwaysNotify(event, rfidUid, method, t) ==
  LET w == createAccessLog(event, rfidUid, method, NoUser, t) IN
  /\ doors' = w.doors
  /\ log' = w.log
  /\ alerts' = <<>>
  /\ outbox' = <<>>
  /\ pushes' = <<"access_denied:" \o method>>
  /\ last' = Resp("access", rfidUid, 0, TRUE, Null)
  /\ Stamp(t)
  /\ UNCHANGED <<cards, nextCardId, counterVars, restVars, pinVars, inflight>>
  /\ WithinBounds

\* handleDoorAccessMessage('door/access', { event, rfidUid, method }) at
\* time t
DoorAccessMsg(event, rfidUid, method, t) ==
  LET w == createAccessLog(event, rfidUid, method, NoUser, t)
      user == IF rfidUid = Null THEN NoUser
              ELSE getUserByRfidHash(sha256(ToUpperCase(rfidUid)))
      username == IF rfidUid = Null THEN "Unknown"
                  ELSE IF user = NoUser THEN rfidUid ELSE Username(user)
  IN
  /\ doors' = w.doors
  /\ log' = w.log
  /\ alerts' = <<>>
  /\ outbox' = <<>>
  /\ pushes' = IF event = "access_denied"
               THEN <<"access_denied:" \o username \o "-" \o method>>
               ELSE <<>>
  /\ last' = Resp("access", rfidUid, 0, TRUE, Null)
  /\ Stamp(t)
  /\ UNCHANGED <<cards, nextCardId, counterVars, restVars, pinVars, inflight>>
  /\ WithinBounds

\* the event handleDoorEvent logs for the door state reported
DoorStateEvent(eventType) ==
  IF eventType = "open" THEN "door_opened" ELSE "door_closed"

\* handleDoorEvent({ status, state, actor, abnormal }) at time t, eventType
\* being status || state (Null when both are absent); the row it adds to the
\* AccessLog table of the alert service is not part of the door's log
DoorEventMsg(eventType, actor, abnormal, t) ==
  LET w == createAccessLog(DoorStateEvent(eventType), Null,
                           IF actor = Null THEN "system" ELSE actor,
                           NoUser, t)
      message == "abnormal:" \o eventType \o ":" \o
                 (IF actor = Null THEN "unknown" ELSE actor)
  IN
  /\ IF eventType # Null
     THEN doors' = w.doors /\ log' = w.log
     ELSE UNCHANGED <<doors, log>>
  /\ alerts' = IF abnormal THEN <<AlertRow("door", "WARNING", message)>>
               ELSE <<>>
  /\ outbox' = IF abnormal THEN <<AlertMsg("door", "WARNING", message)>>
               ELSE <<>>
  /\ pushes' = IF abnormal THEN <<message>> ELSE <<>>
  /\ last' = Resp("door/state", Null, 0, TRUE, eventType)
  /\ Stamp(t)
  /\ UNCHANGED <<cards, nextCardId, counterVars, restVars, pinVars, inflight>>
  /\ WithinBounds

DoorStates == {Null, "open", "closed"}
Actors == {Null, "web_admin"}

(* ---------------- auth.service.js: removal of a user ------------------- *)
\* the log once userId is removed, were DoorAccessLog_userId_fkey ON DELETE
\* CASCADE
LogWithoutUser(lg, userId) == SelectSeq(lg, LAMBDA e : e.userId # userId)

\* DoorAccessLog_userId_fkey, ON DELETE SET NULL: the log once userId is
\* removed
LogAfterUserDelete(lg, userId) ==
  [i \in 1..Len(lg) |->
     IF lg[i].userId = userId THEN [lg[i] EXCEPT !.userId = NoUser]
     ELSE lg[i]]

\* RfidCard_userId_fkey, ON DELETE CASCADE: the cards once userId is removed
CardsAfterUserDelete(cs, userId) == {c \in cs : c.userId # userId}

\* deleteUser(userId): [threw, users, cards, log]
deleteUser(userId) ==
  IF userId \notin users
  THEN [threw |-> TRUE, users |-> users, cards |-> cards, log |-> log]
  ELSE [threw |-> FALSE, users |-> users \ {userId},
        cards |-> CardsAfterUserDelete(cards, userId),
        log |-> LogAfterUserDelete(log, userId)]

\* DELETE /users/:id
DeleteUserRoute(userId) ==
  LET r == deleteUser(userId) IN
  /\ users' = r.users
  /\ cards' = r.cards
  /\ log' = r.log
  /\ last' = IF r.threw THEN Resp("users/delete", Null, 400, FALSE, "not_found")
             ELSE Resp("users/delete", Null, 204, TRUE, Null)
  /\ outbox' = <<>>
  /\ alerts' = <<>>
  /\ pushes' = <<>>
  /\ UNCHANGED <<doors, nextCardId, now, counterVars, history, trackVars,
                 pinVars, inflight>>

\* the door's handlers together with the device reports and the removal of
\* users
NextHome ==
  \/ Next
  \/ \E r \in DeviceReports, x \in {Null, "ab"}, t \in Clock :
       DoorAccessMsg(r.event, x, r.method, t)
  \/ \E s \in DoorStates, a \in Actors, b \in BOOLEAN, t \in Clock :
       DoorEventMsg(s, a, b, t)
  \/ \E u \in UserIdInputs : DeleteUserRoute(u)

SpecHome == Init /\ [][NextHome]_vars

(* ---------------- door.service.js: history ----------------------------- *)
MaxHistory == 2

\* the rows in the order they were inserted
InsertionOrder(s) == s

RECURSIVE Reverse(_)
Reverse(s) == IF s = <<>> THEN <<>> ELSE Append(Reverse(Tail(s)), Head(s))

\* the tags the log can hold: those the backend writes itself, and a tag of
\* the device's own (DoorAccessLog.event is a VARCHAR)
LoggedEvents ==
  {"door_opened", "door_closed", "access_granted", "access_denied",
   "alarm_triggered", "enrollment_success", "enrollment_failed",
   "card_reported_lost", "door_forced"}

\* eventCondition taken from the filter as it is, every event without one
HistoryEventsUnrestricted(eventFilter) ==
  IF eventFilter = Null THEN LoggedEvents ELSE {eventFilter}

\* eventCondition that keeps, without a filter, only the door's movements
\* and the accesses granted
HistoryEventsOpenClose(eventFilter) ==
  IF eventFilter = "granted" THEN {"door_opened", "access_granted"}
  ELSE IF eventFilter = "denied" THEN {"access_denied", "alarm_triggered"}
  ELSE {"door_opened", "door_closed", "access_granted"}

\* eventCondition of getDoorHistory
HistoryEvents(eventFilter) ==
  IF eventFilter = "granted" THEN {"door_opened", "access_granted"}
  ELSE IF eventFilter = "denied" THEN {"access_denied", "alarm_triggered"}
  ELSE {"door_opened", "door_closed", "access_granted", "access_denied",
        "alarm_triggered"}

\* logs.map(log => ({ id, event, method, timestamp, user }))
HistoryRow(lg, i) ==
  [id |-> i, event |-> lg[i].event, method |-> lg[i].method,
   timestamp |-> lg[i].timestamp,
   user |-> [id |-> lg[i].userId,
             username |-> IF lg[i].userId = NoUser THEN Null
                          ELSE Username(lg[i].userId)]]

\* getDoorHistory({ page, limit, eventFilter }): [doors, logs, total, page,
\* totalPages]; the log is in timestamp order, so its reverse is the order
\* of orderBy: { timestamp: 'desc' }
getDoorHistory(page, limit, eventFilter) ==
  LET ds == getOrCreateDoor(doors)
      rows == [i \in 1..Len(log) |-> HistoryRow(log, i)]
      hits == SelectSeq(rows, LAMBDA r :
                /\ log[r.id].doorId = ds[1].id
                /\ r.event \in HistoryEvents(eventFilter))
      desc == Reverse(hits)
      skip == (page - 1) * limit
      upto == IF skip + limit < Len(desc) THEN skip + limit ELSE Len(desc)
  IN [doors |-> ds,
      logs |-> SubSeq(desc, skip + 1, upto),
      total |-> Len(hits),
      page |-> page,
      totalPages |-> (Len(hits) + limit - 1) \div limit]

\* GET /history?page&limit&event; page and limit are the parsed numbers, 0
\* standing for NaN as well, and Null for an absent event
HistoryRoute(page, limit, event) ==
  LET r == getDoorHistory(IF page = 0 THEN 1 ELSE page,
                          IF limit = 0 THEN 20 ELSE limit, event)
  IN
  /\ doors' = r.doors
  /\ history' = [logs |-> r.logs, total |-> r.total, page |-> r.page,
                 totalPages |-> r.totalPages]
  /\ last' = Resp("history", event, 200, TRUE, Null)
  /\ outbox' = <<>>
  /\ alerts' = <<>>
  /\ pushes' = <<>>
  /\ UNCHANGED <<cards, nextCardId, log, now, counterVars, users, trackVars,
                 pinVars, inflight>>

\* a DoorAccessLog row with include: { user: { select: { id, username } } }
AccessLogRow(lg, i) ==
  [id |-> i, doorId |-> lg[i].doorId, userId |-> lg[i].userId,
   event |-> lg[i].event, rfidUid |-> lg[i].rfidUid, method |-> lg[i].method,
   timestamp |-> lg[i].timestamp,
   user |-> [id |-> lg[i].userId,
             username |-> IF lg[i].userId = NoUser THEN Null
                          ELSE Username(lg[i].userId)]]

\* getAccessLogs({ page, limit, eventFilter }): [doors, logs, total, page,
\* totalPages]; where.event is the filter itself when one is given
getAccessLogs(page, limit, eventFilter) ==
  LET ds == getOrCreateDoor(doors)
      rows == [i \in 1..Len(log) |-> AccessLogRow(log, i)]
      hits == SelectSeq(rows, LAMBDA r :
                /\ r.doorId = ds[1].id
                /\ eventFilter # Null => r.event = eventFilter)
      desc == Reverse(hits)
      skip == (page - 1) * limit
      upto == IF skip + limit < Len(desc) THEN skip + limit ELSE Len(desc)
  IN [doors |-> ds,
      logs |-> SubSeq(desc, skip + 1, upto),
      total |-> Len(hits),
      page |-> page,
      totalPages |-> (Len(hits) + limit - 1) \div limit]

\* GET /logs?page&limit&event; page and limit are the parsed numbers, 0
\* standing for NaN as well, and Null for an absent event
LogsRoute(page, limit, event) ==
  LET r == getAccessLogs(IF page = 0 THEN 1 ELSE page,
                         IF limit = 0 THEN 50 ELSE limit, event)
  IN
  /\ doors' = r.doors
  /\ history' = [logs |-> r.logs, total |-> r.total, page |-> r.page,
                 totalPages |-> r.totalPages]
  /\ last' = Resp("logs", event, 200, TRUE, Null)
  /\ outbox' = <<>>
  /\ alerts' = <<>>
  /\ pushes' = <<>>
  /\ UNCHANGED <<cards, nextCardId, log, now, counterVars, users, trackVars,
                 pinVars, inflight>>

\* req.query.event of GET /logs
LogFilters == {Null, "access_denied", "door_opened"}

EventFilters == {Null, "granted", "denied", "enrollment_success"}

\* the logs of at most n entries, written at times 1, 2, ...
HistoryLogs(n) ==
  UNION {{lg \in [1..k -> {LogEntry(d, NoUser, e, Null, "system", 0) :
                             d \in 1..2, e \in LoggedEvents}] :
            TRUE} : k \in 0..n}

Timestamped(lg) == [i \in 1..Len(lg) |-> [lg[i] EXCEPT !.timestamp = i]]

InitHistory ==
  /\ doors \in {<<>>, <<NewDoor(DefaultPin)>>}
  /\ cards = {}
  /\ nextCardId = 1
  /\ log \in {Timestamped(lg) : lg \in HistoryLogs(MaxHistory)}
  /\ now = MaxHistory
  /\ outbox = <<>>
  /\ alerts = <<>>
  /\ pushes = <<>>
  /\ last = NoResp
  /\ users = Users
  /\ history = NoHistory
  /\ time = 0
  /\ deviceLastSeen = <<>>
  /\ sweeps = [s \in Sweeps |-> IdleSweep]
  /\ offlineSent = [d \in Devices |-> 0]
  /\ count = 0
  /\ attemptResults = <<>>
  /\ pos = 0
  /\ InitIdle

NextHistory ==
  \/ \E page \in 0..2, limit \in 0..1, event \in EventFilters :
       HistoryRoute(page, limit, event)
  \/ \E page \in 0..2, limit \in 0..1, event \in LogFilters :
       LogsRoute(page, limit, event)

SpecHistory == InitHistory /\ [][NextHistory]_vars

(* ---------------- FailedAttemptCounter (property tests) ---------------- *)
alarmThreshold == 5

\* recordAttempt that keeps the count on success
recordAttemptNoReset(c, success) == IF success THEN c ELSE c + 1

\* recordAttempt(success): the new count
recordAttempt(c, success) == IF success THEN 0 ELSE c + 1

\* shouldTriggerAlarm with a strict comparison
shouldTriggerAlarmStrict(c) == c > alarmThreshold

\* shouldTriggerAlarm()
shouldTriggerAlarm(c) == c >= alarmThreshold

BoolSeqs(n) == UNION {[1..k -> BOOLEAN] : k \in 0..n}

InitCounter ==
  /\ InitDoor
  /\ count = 0
  /\ attemptResults \in BoolSeqs(MaxAttempts)
  /\ pos = 0
  /\ InitIdle

\* for (const success of attemptResults) counter.recordAttempt(success)
RecordAttempt ==
  /\ pos < Len(attemptResults)
  /\ count' = recordAttempt(count, attemptResults[pos + 1])
  /\ pos' = pos + 1
  /\ UNCHANGED <<attemptResults, doorVars, pinVars, inflight, restVars>>

NextCounter == RecordAttempt

SpecCounter == InitCounter /\ [][NextCounter]_vars

(* ---------------- PIN authentication (property tests) ------------------ *)
\* validatePin(pin): /^\d{4}$/.test(pin)
validatePin(pin) == Len(pin) = 4 /\ \A i \in 1..4 : pin[i] \in Digits

\* simulatePinAuth unlocking only after a validated RFID scan
simulatePinAuthAfterRfid(inputPin, storedPinHash, rfidValidated) ==
  LET inputHash == sha256(Str(inputPin))
      isValid == inputHash = storedPinHash
  IN [success |-> isValid, shouldUnlock |-> isValid /\ rfidValidated,
      method |-> IF isValid THEN "pin" ELSE "invalid_pin"]

\* simulatePinAuth(inputPin, storedPinHash, rfidValidated)
simulatePinAuth(inputPin, storedPinHash, rfidValidated) ==
  LET inputHash == sha256(Str(inputPin))
      isValid == inputHash = storedPinHash
  IN [success |-> isValid, shouldUnlock |-> isValid,
      method |-> IF isValid THEN "pin" ELSE "invalid_pin"]

\* the digests of the PINs a door can have
StoredPinHashes == {sha256(Str(p)) : p \in {q \in PinInputs : validatePin(q)}}

InitPin ==
  /\ InitDoor
  /\ count = 0
  /\ attemptResults = <<>>
  /\ pos = 0
  /\ pinAuth \in {NewPinAuth(h, b) : h \in StoredPinHashes, b \in BOOLEAN}
  /\ hashed = <<>>
  /\ inflight = [p \in Tasks |-> IdleTask]

\* const result = simulatePinAuth(pin, storedHash, rfidValidated)
SimulatePinAuth(inputPin) ==
  /\ ~pinAuth.entered
  /\ pinAuth' = [pinAuth EXCEPT
                   !.inputPin = inputPin,
                   !.entered = TRUE,
                   !.result = simulatePinAuth(inputPin, pinAuth.storedPinHash,
                                              pinAuth.rfidValidated)]
  /\ UNCHANGED <<doorVars, counterVars, restVars, hashed, inflight>>

NextPin ==
  \/ \E pin \in PinInputs, currentPin \in PinInputs :
       PinChangeRoute(pin, currentPin)
  \/ \E inputPin \in PinInputs : SimulatePinAuth(inputPin)

SpecPin == InitPin /\ [][NextPin]_vars

(* ---------------- handlers as sequences of awaited calls --------------- *)
\* client.on('message', handleMessage) and the HTTP server call an async
\* handler for each arrival and do not wait for the promise it returns: a
\* handler runs from one await to the next as one step, and steps of the
\* handlers in the task slots alternate in any order.  A handler arrives
\* with its first awaited call.
Free(p) == inflight[p].pc = "idle"

At(p, op, pc) == inflight[p].op = op /\ inflight[p].pc = pc

\* the handler in slot p goes on to pc
Goto(p, pc) == inflight' = [inflight EXCEPT ![p].pc = pc]

\* the handler in slot p returns after publishing msgs and sending the
\* notifications sent: the slot is free again and outbox shows all it
\* published
Finish(p, msgs, sent, resp) ==
  /\ inflight' = [inflight EXCEPT ![p] = IdleTask]
  /\ outbox' = inflight[p].sent \o msgs
  /\ alerts' = <<>>
  /\ pushes' = sent
  /\ last' = resp

\* the handler in slot p is suspended again and has returned nothing yet
Suspended == UNCHANGED <<outbox, alerts, pushes, last>>

ScanUid(p) == ToUpperCase(inflight[p].uid)

ScanHash(p) == sha256(ScanUid(p))

\* door/rfid/check arrives: await doorService.getEnrollmentStatus(); while
\* IDLE the authentication branch follows, taken here as one step
ScanArrives(p, uid, t) ==
  /\ Free(p)
  /\ IF getEnrollmentStatus(doors).active
     THEN /\ inflight' = [inflight EXCEPT ![p] =
                            [IdleTask EXCEPT !.op = "rfid/check",
                                             !.pc = "door", !.uid = uid]]
          /\ UNCHANGED <<doorVars, counterVars, restVars, pinVars>>
     ELSE /\ RunRfidAuth("rfid/check:auth", [uid |-> uid, uidHash |-> Null],
                         "none", t)
          /\ Stamp(t)
          /\ UNCHANGED <<counterVars, restVars, pinVars, inflight>>
          /\ WithinBounds

\* processEnrollmentScan: const door = await prisma.door.findFirst()
ScanReadDoor(p) ==
  /\ At(p, "rfid/check", "door")
  /\ IF doors = <<>> \/ ~doors[1].enrollmentMode
        \/ doors[1].enrollmentUserId = NoUser
     THEN Finish(p, <<EnrollmentResultMsg(FALSE, "not_in_enrollment_mode",
                                          Null)>>,
                 <<>>,
                 Resp("rfid/check:enroll", inflight[p].uid, 0, FALSE,
                      "not_in_enrollment_mode"))
     ELSE /\ inflight' = [inflight EXCEPT
                            ![p].pc = "conflict",
                            ![p].userId = doors[1].enrollmentUserId]
          /\ Suspended
  /\ UNCHANGED <<doors, cards, nextCardId, log, now, counterVars, restVars, pinVars>>

\* const existingCardWithUid = await prisma.rfidCard.findFirst(...)
ScanFindConflict(p) ==
  /\ At(p, "rfid/check", "conflict")
  /\ LET found == ConflictingCards(cards, ScanHash(p), inflight[p].userId) IN
     inflight' = [inflight EXCEPT
                    ![p].pc = IF found # {} THEN "conflictExit"
                              ELSE "deleteUid",
                    ![p].error = IF found # {}
                                 THEN "card_assigned_to:" \o
                                      Username(FindFirst(found).userId)
                                 ELSE Null]
  /\ UNCHANGED <<doorVars, counterVars, restVars, pinVars>>

\* conflict: await prisma.door.update(...), return, publish the failure
ScanConflictExit(p) ==
  /\ At(p, "rfid/check", "conflictExit")
  /\ doors' = SetEnrollment(doors, 1, FALSE, NoUser)
  /\ Finish(p, <<EnrollmentResultMsg(FALSE, inflight[p].error, Null)>>,
            <<>>,
            Resp("rfid/check:enroll", inflight[p].uid, 0, FALSE,
                 inflight[p].error))
  /\ UNCHANGED <<cards, nextCardId, log, now, counterVars, restVars, pinVars>>

\* await prisma.rfidCard.deleteMany({ uidHash, userId: { not: userId } })
ScanDeleteUid(p) ==
  /\ At(p, "rfid/check", "deleteUid")
  /\ cards' = DeleteByUid(cards, ScanHash(p), inflight[p].userId)
  /\ Goto(p, "deleteUser")
  /\ UNCHANGED <<doors, nextCardId, log, now, outbox, alerts, pushes, last,
                 counterVars, restVars, pinVars>>

\* await prisma.rfidCard.deleteMany({ where: { userId } })
ScanDeleteUser(p) ==
  /\ At(p, "rfid/check", "deleteUser")
  /\ cards' = {c \in cards : c.userId # inflight[p].userId}
  /\ Goto(p, "create")
  /\ UNCHANGED <<doors, nextCardId, log, now, outbox, alerts, pushes, last,
                 counterVars, restVars, pinVars>>

\* const newCard = await prisma.rfidCard.create(...); a violated unique
\* index rejects, and the catch of handleEnrollmentScan publishes the error
ScanCreate(p) ==
  /\ At(p, "rfid/check", "create")
  /\ IF CanCreateCard(cards, inflight[p].userId, ScanUid(p), ScanHash(p))
     THEN /\ cards' = cards \cup {NewCard(nextCardId, 1, inflight[p].userId,
                                          ScanUid(p), ScanHash(p))}
          /\ nextCardId' = nextCardId + 1
          /\ Goto(p, "exit")
          /\ Suspended
     ELSE /\ Finish(p, <<EnrollmentResultMsg(FALSE, "constraint_failed",
                                             Null)>>,
                    <<>>,
                    Resp("rfid/check:enroll", inflight[p].uid, 0, FALSE,
                         "constraint_failed"))
          /\ UNCHANGED <<cards, nextCardId>>
  /\ UNCHANGED <<doors, log, now, counterVars, restVars, pinVars>>
  /\ WithinBounds

\* exit enrollment mode: await prisma.door.update(...)
ScanExit(p) ==
  /\ At(p, "rfid/check", "exit")
  /\ doors' = SetEnrollment(doors, 1, FALSE, NoUser)
  /\ Goto(p, "log")
  /\ Suspended
  /\ UNCHANGED <<cards, nextCardId, log, now, counterVars, restVars, pinVars>>

\* await prisma.doorAccessLog.create(...), return to handleEnrollmentScan,
\* publish door/enrollment/result
ScanLog(p, t) ==
  /\ At(p, "rfid/check", "log")
  /\ log' = Append(log, LogEntry(1, inflight[p].userId, "enrollment_success",
                                 ScanUid(p), "enrollment", t))
  /\ now' = t
  /\ inflight' = [inflight EXCEPT
                    ![p].pc = "whitelist",
                    ![p].sent = <<EnrollmentResultMsg(
                                    TRUE,
                                    "enrolled:" \o Username(inflight[p].userId),
                                    Username(inflight[p].userId))>>]
  /\ Suspended
  /\ UNCHANGED <<doors, cards, nextCardId, counterVars, restVars, pinVars>>
  /\ WithinBounds

\* const whitelist = await doorService.getRfidWhitelist(), publish
\* door/config/rfid, await pushService.sendToAll(...)
ScanWhitelist(p) ==
  /\ At(p, "rfid/check", "whitelist")
  /\ Finish(p, <<WhitelistMsg(doors, cards)>>,
            <<"rfid_enrolled:" \o Username(inflight[p].userId)>>,
            Resp("rfid/check:enroll", inflight[p].uid, 0, TRUE, Null))
  /\ UNCHANGED <<doors, cards, nextCardId, log, now, counterVars, restVars, pinVars>>

\* POST /enrollment/start arrives: await doorService.getUserRfidStatus(userId)
StartArrives(p, userId, confirmReplace) ==
  /\ Free(p)
  /\ IF getUserRfidStatus(userId) /\ ~confirmReplace
     THEN /\ last' = Resp("enrollment/start", Null, 409, FALSE,
                          "requireConfirmation")
          /\ outbox' = <<>>
          /\ alerts' = <<>>
          /\ pushes' = <<>>
          /\ UNCHANGED inflight
     ELSE /\ inflight' = [inflight EXCEPT ![p] =
                            [IdleTask EXCEPT !.op = "enrollment/start",
                                             !.pc = "getDoor",
                                             !.userId = userId,
                                             !.confirm = confirmReplace]]
          /\ Suspended
  /\ UNCHANGED <<doors, cards, nextCardId, log, now, counterVars, restVars, pinVars>>

\* the Door row prisma.door.create adds to the table ds; its id stands for
\* the generated key
CreatedDoor(ds) == [NewDoor(DefaultPin) EXCEPT !.id = Len(ds) + 1]

\* getOrCreateDoor: let door = await prisma.door.findFirst(), for the task
\* that goes on at pc found when there is a row
FindDoor(p, found) ==
  inflight' = [inflight EXCEPT
                 ![p].pc = IF doors = <<>> THEN "createDoor" ELSE found,
                 ![p].doorId = IF doors = <<>> THEN 0 ELSE doors[1].id]

\* getOrCreateDoor: door = await prisma.door.create(...), for the task
\* that goes on at pc created
CreateDoor(p, created) ==
  /\ doors' = Append(doors, CreatedDoor(doors))
  /\ inflight' = [inflight EXCEPT ![p].pc = created,
                                  ![p].doorId = CreatedDoor(doors).id]

\* startEnrollment: const door = await getOrCreateDoor(), the findFirst
StartGetDoor(p) ==
  /\ At(p, "enrollment/start", "getDoor")
  /\ FindDoor(p, "findUser")
  /\ Suspended
  /\ UNCHANGED <<doors, cards, nextCardId, log, now, counterVars, restVars, pinVars>>

\* startEnrollment: const door = await getOrCreateDoor(), the create
StartCreateDoor(p) ==
  /\ At(p, "enrollment/start", "createDoor")
  /\ CreateDoor(p, "findUser")
  /\ Suspended
  /\ UNCHANGED <<cards, nextCardId, log, now, counterVars, restVars, pinVars>>

\* const user = await prisma.user.findUnique(...)
StartFindUser(p) ==
  /\ At(p, "enrollment/start", "findUser")
  /\ IF inflight[p].userId \notin users
     THEN Finish(p, <<>>, <<>>,
                 Resp("enrollment/start", Null, 400, FALSE, "user_not_found"))
     ELSE Goto(p, "update") /\ Suspended
  /\ UNCHANGED <<doors, cards, nextCardId, log, now, counterVars, restVars, pinVars>>

\* await prisma.door.update(...), return, publish door/enrollment
StartUpdate(p) ==
  /\ At(p, "enrollment/start", "update")
  /\ doors' = SetEnrollment(doors, inflight[p].doorId, TRUE, inflight[p].userId)
  /\ Finish(p, <<[topic |-> "door/enrollment", action |-> "start",
                  userId |-> inflight[p].userId,
                  username |-> Username(inflight[p].userId)]>>,
            <<>>, Resp("enrollment/start", Null, 200, TRUE, Null))
  /\ UNCHANGED <<cards, nextCardId, log, now, counterVars, restVars, pinVars>>

\* POST /enrollment/cancel arrives: const door = await getOrCreateDoor(),
\* the findFirst
CancelArrives(p) ==
  /\ Free(p)
  /\ inflight' = [inflight EXCEPT ![p] =
                    [IdleTask EXCEPT
                       !.op = "enrollment/cancel",
                       !.pc = IF doors = <<>> THEN "createDoor" ELSE "update",
                       !.doorId = IF doors = <<>> THEN 0 ELSE doors[1].id]]
  /\ Suspended
  /\ UNCHANGED <<doors, cards, nextCardId, log, now, counterVars, restVars, pinVars>>

\* cancelEnrollment: const door = await getOrCreateDoor(), the create
CancelCreateDoor(p) ==
  /\ At(p, "enrollment/cancel", "createDoor")
  /\ CreateDoor(p, "update")
  /\ Suspended
  /\ UNCHANGED <<cards, nextCardId, log, now, counterVars, restVars, pinVars>>

\* await prisma.door.update(...), return, publish door/enrollment
CancelUpdate(p) ==
  /\ At(p, "enrollment/cancel", "update")
  /\ doors' = SetEnrollment(doors, inflight[p].doorId, FALSE, NoUser)
  /\ Finish(p, <<[topic |-> "door/enrollment", action |-> "cancel",
                  userId |-> NoUser, username |-> Null]>>,
            <<>>, Resp("enrollment/cancel", Null, 200, TRUE, Null))
  /\ UNCHANGED <<cards, nextCardId, log, now, counterVars, restVars, pinVars>>

NextAsync ==
  \/ \E p \in Tasks, x \in RawUids, t \in Clock : ScanArrives(p, x, t)
  \/ \E p \in Tasks : ScanReadDoor(p)
  \/ \E p \in Tasks : ScanFindConflict(p)
  \/ \E p \in Tasks : ScanConflictExit(p)
  \/ \E p \in Tasks : ScanDeleteUid(p)
  \/ \E p \in Tasks : ScanDeleteUser(p)
  \/ \E p \in Tasks : ScanCreate(p)
  \/ \E p \in Tasks : ScanExit(p)
  \/ \E p \in Tasks, t \in Clock : ScanLog(p, t)
  \/ \E p \in Tasks : ScanWhitelist(p)
  \/ \E p \in Tasks, u \in UserIdInputs, c \in BOOLEAN : StartArrives(p, u, c)
  \/ \E p \in Tasks : StartGetDoor(p)
  \/ \E p \in Tasks : StartCreateDoor(p)
  \/ \E p \in Tasks : StartFindUser(p)
  \/ \E p \in Tasks : StartUpdate(p)
  \/ \E p \in Tasks : CancelArrives(p)
  \/ \E p \in Tasks : CancelCreateDoor(p)
  \/ \E p \in Tasks : CancelUpdate(p)

SpecAsync == Init /\ [][NextAsync]_vars

(* ---------------- device tracking: heartbeats and the offline sweep ---- *)
OFFLINE_THRESHOLD == 30000
SweepPeriod == 10000
MaxTicks == 5

\* the place of key k in the Map m, 0 when it has none
MapIndex(m, k) ==
  IF \E i \in 1..Len(m) : m[i].deviceId = k
  THEN CHOOSE i \in 1..Len(m) : m[i].deviceId = k
  ELSE 0

\* m.set(k, v): a key already there keeps its place, a new one goes last
MapSet(m, k, v) ==
  IF MapIndex(m, k) # 0
  THEN [m EXCEPT ![MapIndex(m, k)].lastSeen = v]
  ELSE Append(m, [deviceId |-> k, lastSeen |-> v])

\* m.delete(k)
MapDelete(m, k) == SelectSeq(m, LAMBDA e : e.deviceId # k)

\* the place a Map iterator that has passed idx entries is at once key k is
\* deleted from m
AfterDelete(m, k, idx) ==
  IF MapIndex(m, k) # 0 /\ MapIndex(m, k) <= idx THEN idx - 1 ELSE idx

\* now - lastSeen > OFFLINE_THRESHOLD
Stale(e, n) == n - e.lastSeen > OFFLINE_THRESHOLD

\* the first entry after the idx-th that the loop of checkOfflineDevices
\* finds stale at n, 0 when it reaches the end of the Map
NextStale(m, idx, n) ==
  IF \E i \in (idx + 1)..Len(m) : Stale(m[i], n)
  THEN CHOOSE i \in (idx + 1)..Len(m) :
         Stale(m[i], n) /\ \A j \in (idx + 1)..(i - 1) : ~Stale(m[j], n)
  ELSE 0

\* handleMessage('home/device/heartbeat', { deviceId })
Heartbeat(d) ==
  /\ deviceLastSeen' = MapSet(deviceLastSeen, d, time)
  /\ offlineSent' = [offlineSent EXCEPT ![d] = 0]
  /\ last' = Resp("heartbeat", d, 0, TRUE, Null)
  /\ outbox' = <<>>
  /\ alerts' = <<>>
  /\ pushes' = <<>>
  /\ UNCHANGED <<doors, cards, nextCardId, log, now, counterVars, users,
                 history, time, sweeps, pinVars, inflight>>

\* the loop of checkOfflineDevices in slot s, run over the Map m from the
\* entry after the idx-th up to its next await: at the first stale entry it
\* calls pushService.sendToAll and is suspended; at the end of the Map it
\* returns
SweepRun(s, m, idx, n) ==
  LET j == NextStale(m, idx, n) IN
  /\ deviceLastSeen' = m
  /\ last' = Resp("sweep", Null, 0, TRUE, Null)
  /\ outbox' = <<>>
  /\ alerts' = <<>>
  /\ IF j = 0
     THEN /\ sweeps' = [sweeps EXCEPT ![s] = IdleSweep]
          /\ pushes' = <<>>
          /\ UNCHANGED offlineSent
     ELSE /\ sweeps' = [sweeps EXCEPT ![s] =
                          [pc |-> "push", now |-> n, idx |-> j,
                           deviceId |-> m[j].deviceId]]
          /\ pushes' = <<"offline:" \o m[j].deviceId>>
          /\ offlineSent' = [offlineSent EXCEPT ![m[j].deviceId] = @ + 1]

\* SweepPeriod ms pass and the timer of setInterval fires: checkOfflineDevices
\* starts in the first free slot and reads Date.now()
Tick(s) ==
  /\ time < MaxTicks * SweepPeriod
  /\ sweeps[s].pc = "idle"
  /\ \A r \in Sweeps : r < s => sweeps[r].pc # "idle"
  /\ time' = time + SweepPeriod
  /\ SweepRun(s, deviceLastSeen, 0, time')
  /\ UNCHANGED <<doors, cards, nextCardId, log, now, counterVars, users,
                 history, pinVars, inflight>>

\* the sendToAll awaited in slot s resolves: deviceLastSeen.delete(deviceId),
\* then the loop goes on; the iterators of the sweeps under way follow the
\* Map
PushDone(s) ==
  LET d == sweeps[s].deviceId
      m == MapDelete(deviceLastSeen, d)
      moved == [r \in Sweeps |->
                  [sweeps[r] EXCEPT
                     !.idx = AfterDelete(deviceLastSeen, d, sweeps[r].idx)]]
  IN
  /\ sweeps[s].pc = "push"
  /\ LET j == NextStale(m, moved[s].idx, sweeps[s].now) IN
     /\ deviceLastSeen' = m
     /\ last' = Resp("sweep", d, 0, TRUE, Null)
     /\ outbox' = <<>>
     /\ alerts' = <<>>
     /\ IF j = 0
        THEN /\ sweeps' = [moved EXCEPT ![s] = IdleSweep]
             /\ pushes' = <<>>
             /\ UNCHANGED offlineSent
        ELSE /\ sweeps' = [moved EXCEPT ![s] =
                             [pc |-> "push", now |-> sweeps[s].now, idx |-> j,
                              deviceId |-> m[j].deviceId]]
             /\ pushes' = <<"offline:" \o m[j].deviceId>>
             /\ offlineSent' = [offlineSent EXCEPT ![m[j].deviceId] = @ + 1]
  /\ UNCHANGED <<doors, cards, nextCardId, log, now, counterVars, users,
                 history, time, pinVars, inflight>>

\* updateDoorStatus writing lastSeen whatever the status
updateDoorStatusAlwaysSeen(isOnline, t) ==
  [getOrCreateDoor(doors) EXCEPT ![1].isOnline = isOnline, ![1].lastSeen = t]

\* updateDoorStatus(isOnline), run at time t: the Door table after the call;
\* lastSeen: undefined leaves the column as it is
updateDoorStatus(isOnline, t) ==
  LET ds == getOrCreateDoor(doors) IN
  [ds EXCEPT ![1].isOnline = isOnline,
             ![1].lastSeen = IF isOnline THEN t ELSE ds[1].lastSeen]

\* handleDoorAccessMessage('door/status', { online })
DoorStatusMsg(online) ==
  /\ doors' = updateDoorStatus(online, time)
  /\ deviceLastSeen' = MapSet(deviceLastSeen, "door", time)
  /\ offlineSent' = [offlineSent EXCEPT !["door"] = 0]
  /\ last' = Resp("status", Null, 0, online, Null)
  /\ outbox' = <<>>
  /\ alerts' = <<>>
  /\ pushes' = <<>>
  /\ UNCHANGED <<cards, nextCardId, log, now, counterVars, users, history,
                 time, sweeps, pinVars, inflight>>

NextSweep ==
  \/ \E d \in Devices : Heartbeat(d)
  \/ \E b \in BOOLEAN : DoorStatusMsg(b)
  \/ \E s \in Sweeps : Tick(s)
  \/ \E s \in Sweeps : PushDone(s)

SpecSweep == Init /\ [][NextSweep]_vars

(* ======================= properties ==================================== *)
Enrolling == doors # <<>> /\ doors[1].enrollmentMode
Target == doors[1].enrollmentUserId
Digest(uid) == sha256(ToUpperCase(uid))
Idle(ds) == ~getEnrollmentStatus(ds).active
AuthOps == {"rfid/auth", "rfid/check:auth"}
ResultsIn(box) == {i \in 1..Len(box) : box[i].topic = "door/rfid/result"}

\* C1: in every reachable state, authenticating with the digest of any ACTIVE
\* card is allowed and names that card's owner, and the router's only reply
\* to such a scan is one result with allow = true (no further step).
C1_ActiveCardIsGranted ==
  \A c \in cards : c.status = "ACTIVE" =>
    /\ LET r == authenticateRfid(c.uidHash) IN
       r.allowed /\ r.userId = c.userId /\ r.username = Username(c.userId)
    /\ \A t \in Clock :
         handleRfidAuth([uid |-> Null, uidHash |-> c.uidHash], "none", t).outbox
           = <<RfidResultMsg(Null, TRUE, Username(c.userId), Null)>>

\* an ACTIVE card created after an earlier card was revoked
C1_Witness ==
  /\ \E c \in cards : c.status = "ACTIVE" /\ c.id >= 2
  /\ \E d \in cards : d.status = "REVOKED"

\* C2: the card table never holds two ACTIVE cards of the same user, nor two
\* ACTIVE cards with the same UID digest.
C2_OneActiveCard ==
  \A c, d \in cards :
    (c # d /\ c.status = "ACTIVE" /\ d.status = "ACTIVE") =>
      (c.userId # d.userId /\ c.uidHash # d.uidHash)

\* two ACTIVE cards coexist, one of them created by an enrollment scan
C2_Witness ==
  /\ \E c, d \in cards :
       c # d /\ c.status = "ACTIVE" /\ d.status = "ACTIVE"
  /\ \E i \in 1..Len(log) : log[i].event = "enrollment_success"

\* C3: while ENROLLING(A), a scan whose digest matches an ACTIVE card of
\* another user B fails with an error naming B, creates no card, leaves the
\* card table (B's card included) as it was, and the door becomes IDLE.
C3_EnrollmentConflict ==
  \A x \in RawUids, t \in Clock :
    LET held == {c \in cards : c.uidHash = Digest(x) /\ c.status = "ACTIVE"
                               /\ c.userId # Target}
    IN (Enrolling /\ held # {}) =>
         LET r == processEnrollmentScan(x, t) IN
         /\ ~r.success /\ ~r.threw
         /\ \E b \in held : r.error = "card_assigned_to:" \o Username(b.userId)
         /\ r.cards = cards
         /\ r.nextCardId = nextCardId
         /\ r.log = log
         /\ Idle(r.doors)
         /\ r.doors[1].enrollmentUserId = NoUser

\* a scan in enrollment mode was refused with the holder's name
C3_Witness ==
  /\ last.op = "rfid/check:enroll"
  /\ ~last.success
  /\ last.error \in {"card_assigned_to:" \o Username(u) : u \in Users}
  /\ \E c \in cards : c.status = "ACTIVE" /\ c.uidHash = Digest(last.uid)
  /\ Idle(doors)

\* C4: while ENROLLING(u), a scan whose digest is not held by another user's
\* ACTIVE card succeeds: no other card with that digest and no prior card of
\* u remains, every other card is untouched, exactly one card is created,
\* ACTIVE, for u, with the upper-cased UID and its digest, one log entry
\* tagged enrollment_success is appended, and the door becomes IDLE.
C4_EnrollmentSuccess ==
  \A x \in RawUids, t \in Clock :
    LET h == Digest(x)
        held == {c \in cards : c.uidHash = h /\ c.status = "ACTIVE"
                               /\ c.userId # Target}
    IN (Enrolling /\ Target \in Users /\ held = {}) =>
         LET r == processEnrollmentScan(x, t)
             created == r.cards \ cards
         IN
         /\ r.success /\ ~r.threw
         /\ Cardinality(created) = 1
         /\ \A n \in created :
              /\ n.userId = Target /\ n.status = "ACTIVE"
              /\ n.uid = ToUpperCase(x) /\ n.uidHash = h
         /\ \A c \in r.cards : (c.uidHash = h \/ c.userId = Target)
                               => c \in created
         /\ \A c \in cards : (c.uidHash # h /\ c.userId # Target)
                             => c \in r.cards
         /\ Len(r.log) = Len(log) + 1
         /\ SubSeq(r.log, 1, Len(log)) = log
         /\ r.log[Len(r.log)].event = "enrollment_success"
         /\ r.log[Len(r.log)].userId = Target
         /\ Idle(r.doors)

\* an enrollment scan has just succeeded
C4_Witness ==
  /\ last.op = "rfid/check:enroll"
  /\ last.success
  /\ log # <<>>
  /\ log[Len(log)].event = "enrollment_success"
  /\ \E c \in cards : c.status = "ACTIVE" /\ c.uid = log[Len(log)].rfidUid
                      /\ c.userId = log[Len(log)].userId
  /\ Idle(doors)

\* C5: right after a door/rfid/check scan of UID x has enrolled a card for
\* the enrollment target u, the door is IDLE, so that a door/rfid/check scan
\* of the same x is routed to authentication, and that authentication
\* answers allow = true with u's name.
C5_EnrolledCardAuthenticates ==
  (last.op = "rfid/check:enroll" /\ last.success) =>
    /\ Idle(doors)
    /\ \A t \in Clock :
         LET u == log[Len(log)].userId
             h == handleRfidAuth([uid |-> last.uid, uidHash |-> Null],
                                 "none", t)
         IN /\ h.success
            /\ h.outbox = <<RfidResultMsg(last.uid, TRUE, Username(u), Null)>>
            /\ h.log[Len(h.log)].event = "access_granted"
            /\ h.log[Len(h.log)].userId = u

\* a lower-case UID has just been enrolled for bob
C5_Witness ==
  /\ last.op = "rfid/check:enroll"
  /\ last.success
  /\ last.uid = "ab"
  /\ log[Len(log)].userId = 2

C7_ExactlyOneResult ==
  [][last'.op \in AuthOps => Cardinality(ResultsIn(outbox')) = 1]_vars

RECURSIVE ConsecutiveFailures(_)
\* the number of FALSE values at the end of seq, after the last TRUE
ConsecutiveFailures(seq) ==
  IF seq = <<>> \/ seq[Len(seq)] THEN 0
  ELSE 1 + ConsecutiveFailures(SubSeq(seq, 1, Len(seq) - 1))

Recorded == SubSeq(attemptResults, 1, pos)

\* C9: after each recordAttempt call the count is the number of consecutive
\* failures since the most recent success (0 right after a success, one more
\* after each failure), and it is never negative.
C9_CountIsConsecutiveFailures ==
  /\ count = ConsecutiveFailures(Recorded)
  /\ count >= 0
  /\ (pos > 0 /\ attemptResults[pos]) => count = 0

\* two failures recorded after a success that followed a failure
C9_Witness ==
  /\ pos = 4
  /\ Recorded = <<FALSE, TRUE, FALSE, FALSE>>
  /\ count = 2

\* C10: shouldTriggerAlarm() is true exactly when at least 5 consecutive
\* failures have been recorded since the last success.
C10_AlarmAtFiveFailures ==
  shouldTriggerAlarm(count) <=> (ConsecutiveFailures(Recorded) >= 5)

\* four failures, a success and four more failures: no alarm
C10_Witness ==
  /\ pos = 9
  /\ Recorded = <<FALSE, FALSE, FALSE, FALSE, TRUE,
                  FALSE, FALSE, FALSE, FALSE>>
  /\ ~shouldTriggerAlarm(count)

(* ---------------- authentication of unknown and revoked cards ---------- *)
\* the digests a reader can present: of each UID, and of a UID as received
AuthDigests == {sha256(ToUpperCase(x)) : x \in RawUids} \cup
               {sha256(x) : x \in RawUids}

CardRevoked(h) ==
  /\ ~authenticateRfid(h).allowed
  /\ authenticateRfid(h).reason = "card_revoked"

UnknownCard(h) ==
  authenticateRfid(h) = [allowed |-> FALSE, reason |-> "unknown_card",
                         userId |-> NoUser, username |-> Null]

RevokeOps == {"rfid/revoke", "rfid/delete", "rfid/report-lost"}

\* C12: in every reachable state, authenticateRfid with a digest that
\* matches no card row returns allowed = false with reason unknown_card and
\* no user id and no username.
C12_UnknownCardDenied ==
  \A h \in AuthDigests :
    ({c \in cards : c.uidHash = h} = {}) => UnknownCard(h)

\* the card table holds cards, and a scan of a UID that is not among them
\* has just been denied as unknown_card
C12_Witness ==
  /\ cards # {}
  /\ last.op \in AuthOps
  /\ last.uid # Null
  /\ ~last.success
  /\ last.error = "unknown_card"
  /\ UnknownCard(sha256(ToUpperCase(last.uid)))

\* C13 as stated: once a card is REVOKED, authenticateRfid with its digest
\* keeps answering card_revoked until a step that enrolls that digest again.
C13_RevokedUntilReenrolled ==
  [][\A c \in cards : c.status = "REVOKED" =>
       \/ CardRevoked(c.uidHash)'
       \/ \E d \in cards' : d.uidHash = c.uidHash /\ d.status = "ACTIVE"]_vars

\* C13 amended: a successful revoke, delete-by-id or report-lost leaves the
\* card's digest denied with reason card_revoked; the denial lasts as long
\* as the REVOKED row exists; the row is removed when its digest is enrolled
\* again and also when its owner enrolls another card, and from then on the
\* digest is denied as unknown_card.
C13_RevokedWhileRowExists ==
  /\ [](\A c \in cards : c.status = "REVOKED" => CardRevoked(c.uidHash))
  /\ [][(last'.op \in RevokeOps /\ last'.success) =>
          \E c \in cards :
             /\ c.status = "ACTIVE" \/ last'.op = "rfid/delete"
             /\ [c EXCEPT !.status = "REVOKED"] \in cards'
             /\ CardRevoked(c.uidHash)']_vars
  /\ [][\A c \in cards : c.status = "REVOKED" =>
          \/ CardRevoked(c.uidHash)'
          \/ \E d \in cards' : d.uidHash = c.uidHash /\ d.status = "ACTIVE"
          \/ /\ UnknownCard(c.uidHash)'
             /\ \E d \in cards' \ cards :
                  d.userId = c.userId /\ d.status = "ACTIVE"]_vars

\* a card was revoked and a scan of its UID has just been denied as
\* card_revoked
C13_Witness ==
  /\ last.op \in AuthOps
  /\ last.uid # Null
  /\ last.error = "card_revoked"
  /\ \E c \in cards : c.status = "REVOKED"
                      /\ c.uidHash = sha256(ToUpperCase(last.uid))

(* ---------------- enrollment state machine ----------------------------- *)
TopicsIn(box) == {box[i].topic : i \in 1..Len(box)}

\* C15: startEnrollment(u) for an existing user u leaves the door
\* ENROLLING(u) whatever the state before: from IDLE, and from ENROLLING(v)
\* whose target it overwrites; there is one Door row and so one target.
C15_StartOverwritesTarget ==
  \A u \in Users :
    LET r == startEnrollment(u) IN
    /\ ~r.threw
    /\ Len(r.doors) = 1
    /\ getEnrollmentStatus(r.doors) = [active |-> TRUE, userId |-> u]
    /\ r.doors = SetEnrollment(getOrCreateDoor(doors), 1, TRUE, u)

\* an enrollment has just been started for bob, who holds no card, while
\* alice holds an ACTIVE card
C15_Witness ==
  /\ last.op = "enrollment/start"
  /\ last.success
  /\ Enrolling
  /\ Target = 2
  /\ ActiveCardsOf(cards, 1) # {}
  /\ ActiveCardsOf(cards, 2) = {}

\* C16: from ENROLLING(u), cancelEnrollment leaves the door IDLE, and so does
\* every scan that processEnrollmentScan completes, as a success or as a
\* conflict; getEnrollmentStatus then reports active = false.
C16_EnrollmentEnds ==
  Enrolling =>
    /\ Idle(cancelEnrollment)
    /\ cancelEnrollment[1].enrollmentUserId = NoUser
    /\ \A x \in RawUids, t \in Clock :
         LET r == processEnrollmentScan(x, t) IN
         /\ ~r.threw
         /\ Idle(r.doors)
         /\ r.doors[1].enrollmentUserId = NoUser

\* an enrollment has just been cancelled
C16_Witness ==
  /\ last.op = "enrollment/cancel"
  /\ doors # <<>>
  /\ Idle(doors)
  /\ cards # {}

\* C17: a door/rfid/check scan handled while the door is IDLE changes no card
\* and is answered by the authentication engine (a door/rfid/result and no
\* door/enrollment/result); one handled while ENROLLING is answered by the
\* enrollment machine (a door/enrollment/result, no door/rfid/result and no
\* access_granted or access_denied log entry).
C17_ScanRouting ==
  [][last'.op \in {"rfid/check:auth", "rfid/check:enroll"} =>
       IF Idle(doors)
       THEN /\ last'.op = "rfid/check:auth"
            /\ cards' = cards
            /\ nextCardId' = nextCardId
            /\ Idle(doors')
            /\ TopicsIn(outbox') = {"door/rfid/result"}
       ELSE /\ last'.op = "rfid/check:enroll"
            /\ "door/enrollment/result" \in TopicsIn(outbox')
            /\ "door/rfid/result" \notin TopicsIn(outbox')
            /\ \A i \in 1..Len(log') :
                 i > Len(log) =>
                   log'[i].event \notin {"access_granted", "access_denied"}]_vars

\* a scan of an unknown UID arrived while the door was IDLE: it was denied
\* and no card was created
C17_Witness ==
  /\ last.op = "rfid/check:auth"
  /\ last.uid # Null
  /\ last.error = "unknown_card"
  /\ \A c \in cards : c.uidHash # sha256(ToUpperCase(last.uid))
  /\ Idle(doors)

\* C18: POST /enrollment/start without confirmReplace for a user who holds
\* an ACTIVE card answers 409 requireConfirmation, leaves the Door table
\* (and so the enrollment state) unchanged and publishes nothing.
C18_StartNeedsConfirmation ==
  [][\A u \in Users :
       (getUserRfidStatus(u) /\ StartEnrollmentRoute(u, FALSE)) =>
         /\ last'.status = 409
         /\ last'.error = "requireConfirmation"
         /\ ~last'.success
         /\ doors' = doors
         /\ outbox' = <<>>]_vars

\* a start of enrollment has just been refused with 409
C18_Witness ==
  /\ last.op = "enrollment/start"
  /\ last.status = 409
  /\ last.error = "requireConfirmation"
  /\ \E c \in cards : c.status = "ACTIVE"
  /\ outbox = <<>>

(* ---------------- PIN authentication and PIN change -------------------- *)
StoredDigest == getOrCreateDoor(doors)[1].pinHash

\* C11: simulatePinAuth gives the same success, shouldUnlock and method with
\* rfidValidated true as with it false, for every entry and stored digest;
\* the result of a session is success with method pin exactly when the
\* digest of the entry equals the stored digest, and otherwise failure with
\* method invalid_pin.
C11_PinIndependentOfRfid ==
  /\ \A p \in PinInputs, h \in StoredPinHashes :
       simulatePinAuth(p, h, TRUE) = simulatePinAuth(p, h, FALSE)
  /\ pinAuth.entered =>
       LET r == pinAuth.result
           match == sha256(Str(pinAuth.inputPin)) = pinAuth.storedPinHash
       IN /\ r = simulatePinAuth(pinAuth.inputPin, pinAuth.storedPinHash,
                                 ~pinAuth.rfidValidated)
          /\ r.success = match
          /\ r.shouldUnlock = match
          /\ r.method = IF match THEN "pin" ELSE "invalid_pin"

\* the right PIN was entered in a session without a validated RFID scan
C11_Witness ==
  /\ pinAuth.entered
  /\ ~pinAuth.rfidValidated
  /\ pinAuth.inputPin = <<"9", "8", "7", "6">>
  /\ pinAuth.result = [success |-> TRUE, shouldUnlock |-> TRUE,
                       method |-> "pin"]

\* C19: PATCH /pin with two PINs of 4 digits, the current one not matching
\* the stored digest, answers 401, leaves the stored digest as it was and
\* publishes nothing (no door/config/pin, no alert, no push).
C19_WrongCurrentPin ==
  [][\A pin \in PinInputs, currentPin \in PinInputs :
       (/\ validatePin(pin) /\ validatePin(currentPin)
        /\ sha256(Str(currentPin)) # StoredDigest
        /\ PinChangeRoute(pin, currentPin)) =>
         /\ last'.status = 401
         /\ ~last'.success
         /\ doors' = getOrCreateDoor(doors)
         /\ StoredDigest' = StoredDigest
         /\ outbox' = <<>>
         /\ alerts' = <<>>
         /\ pushes' = <<>>]_vars

\* after the PIN had been changed, a change with a wrong current PIN has
\* just been refused
C19_Witness ==
  /\ last.op = "pin"
  /\ last.status = 401
  /\ doors # <<>>
  /\ doors[1].pinHash = sha256("9876")
  /\ outbox = <<>>

\* C20: PATCH /pin with a new PIN (or a current PIN) that is not exactly 4
\* decimal digits answers 400 and does nothing else: the Door table is
\* unchanged, sha256 is not called, nothing is published.
C20_MalformedPinRejected ==
  [][\A pin \in PinInputs, currentPin \in PinInputs :
       (/\ ~validatePin(pin) \/ ~validatePin(currentPin)
        /\ PinChangeRoute(pin, currentPin)) =>
         /\ last'.status = 400
         /\ ~last'.success
         /\ doors' = doors
         /\ hashed' = <<>>
         /\ outbox' = <<>>
         /\ alerts' = <<>>
         /\ pushes' = <<>>]_vars

\* after a PIN change, a change to a malformed new PIN has just been refused
C20_Witness ==
  /\ last.op = "pin"
  /\ last.status = 400
  /\ last.error = "new_pin_format"
  /\ doors # <<>>
  /\ doors[1].pinHash # sha256(DefaultPin)
  /\ hashed = <<>>

(* ---------------- handlers and the shared state ------------------------ *)
\* C14: a handler runs to completion before another handler touches the
\* shared state: a handler takes a step (an awaited read or write of the
\* store) only while no other handler is suspended between two of its own.
C14_HandlersRunToCompletion ==
  [][\A p \in Tasks :
       inflight'[p] # inflight[p] => \A q \in Tasks \ {p} : Free(q)]_vars

(* ---------------- the PIN digest --------------------------------------- *)
PinMsgsIn(box) == {i \in 1..Len(box) : box[i].topic = "door/config/pin"}

\* C21: the stored PIN digest changes only in a PATCH /pin answered 200; a
\* PATCH /pin is answered 200 exactly when both PINs are 4 digits and the
\* digest of the current PIN equals the stored digest, and then the stored
\* digest becomes the digest of the new PIN and exactly one door/config/pin
\* message is published, carrying that digest; every other step (enrollment,
\* card management, scans, alarms, refused PIN changes) leaves the digest
\* as it was.
C21_DigestChangesOnlyByPinChange ==
  [][/\ last'.op # "pin" => StoredDigest' = StoredDigest
     /\ last'.op = "pin" =>
        \A pin \in DoorPinInputs, currentPin \in DoorPinInputs :
          PinChangeRoute(pin, currentPin) =>
            IF /\ validatePin(pin) /\ validatePin(currentPin)
               /\ sha256(Str(currentPin)) = StoredDigest
            THEN /\ last'.status = 200
                 /\ StoredDigest' = sha256(Str(pin))
                 /\ Cardinality(PinMsgsIn(outbox')) = 1
                 /\ \A i \in PinMsgsIn(outbox') :
                      outbox'[i] = PinConfigMsg(StoredDigest')
            ELSE /\ last'.status # 200
                 /\ StoredDigest' = StoredDigest
                 /\ PinMsgsIn(outbox') = {}]_vars

\* the PIN has just been changed, by an accepted change, to one that is not
\* the default, while a card is enrolled
C21_Witness ==
  /\ last.op = "pin"
  /\ last.status = 200
  /\ doors # <<>>
  /\ doors[1].pinHash = sha256("9876")
  /\ PinConfigMsg(sha256("9876")) \in {outbox[i] : i \in 1..Len(outbox)}
  /\ cards # {}

(* ---------------- the life of a card row ------------------------------- *)
CardIds(cs) == {c.id : c \in cs}

\* C22: in every step, a card row that is still there afterwards is either
\* unchanged or went from ACTIVE to REVOKED (no REVOKED row becomes ACTIVE,
\* no other column changes), and a user without an ACTIVE card who has one
\* afterwards has it in a row created in that step, under the next
\* AUTO_INCREMENT id, which no row has ever had.
C22_StatusOnlyToRevoked ==
  [][/\ \A c \in cards, d \in cards' :
          c.id = d.id =>
            \/ d = c
            \/ c.status = "ACTIVE" /\ d = [c EXCEPT !.status = "REVOKED"]
     /\ \A u \in Users :
          (ActiveCardsOf(cards, u) = {} /\ ActiveCardsOf(cards', u) # {}) =>
            /\ nextCardId' = nextCardId + 1
            /\ \A d \in ActiveCardsOf(cards', u) :
                 d.id = nextCardId /\ d.id \notin CardIds(cards)]_vars

\* a user holds an ACTIVE card in the second row ever created while the
\* first row, REVOKED, is still there
C22_Witness ==
  /\ \E c \in cards : c.id = 1 /\ c.status = "REVOKED"
  /\ \E d \in cards : d.id = 2 /\ d.status = "ACTIVE"
  /\ nextCardId = 3

C24_WhitelistAfterMutation ==
  [][(cards' # cards /\ last'.success) =>
       \E i \in 1..Len(outbox') : outbox'[i] = WhitelistMsg(doors', cards')]_vars

(* ---------------- the history view ------------------------------------- *)
AccessEvents ==
  {"door_opened", "door_closed", "access_granted", "access_denied",
   "alarm_triggered"}

ManagementEvents ==
  {"card_reported_lost", "enrollment_success", "enrollment_failed"}

\* C25: whatever the log holds, the page GET /history has returned, and the
\* page getDoorHistory returns for every page, limit and event filter (none,
\* 'granted', 'denied', any other string), shows only entries whose event is
\* door_opened, door_closed, access_granted, access_denied or
\* alarm_triggered, never a card_reported_lost, enrollment_success or
\* enrollment_failed entry; its total counts only such entries.
C25_HistoryShowsAccessEventsOnly ==
  /\ last.op = "history" =>
       \A i \in 1..Len(history.logs) :
         /\ history.logs[i].event \in AccessEvents
         /\ history.logs[i].event \notin ManagementEvents
  /\ \A page \in 1..2, limit \in {1, 20}, f \in EventFilters :
       LET r == getDoorHistory(page, limit, f) IN
       /\ \A i \in 1..Len(r.logs) :
            /\ r.logs[i].event \in AccessEvents
            /\ r.logs[i].event \notin ManagementEvents
            /\ log[r.logs[i].id].event = r.logs[i].event
       /\ r.total <= Cardinality({i \in 1..Len(log) :
                                   log[i].event \in AccessEvents})

\* GET /history with a filter that is neither 'granted' nor 'denied' has
\* returned one entry of a log that also holds an enrollment_success entry
\* of the same door
C25_Witness ==
  /\ last.op = "history"
  /\ last.uid = "enrollment_success"
  /\ Len(history.logs) = 1
  /\ history.total = 1
  /\ \E i \in 1..Len(log) :
       log[i].event = "enrollment_success" /\ log[i].doorId = doors[1].id

(* ---------------- the vocabularies of the log -------------------------- *)
\* C26: in every reachable state, every entry of the access log has an
\* event among access_granted, access_denied, alarm_triggered, door_opened,
\* door_closed, enrollment_success, enrollment_failed, card_reported_lost,
\* whether a device message or an HTTP request wrote it.
C26_EventVocabulary ==
  \A i \in 1..Len(log) : log[i].event \in AccessEvents \cup ManagementEvents

MethodVocabulary ==
  {"pin", "rfid", "invalid_pin", "invalid_rfid", "card_revoked", "web_admin",
   "physical_button", "system", "enrollment", "user_report"}

\* C27: the entry an RFID authentication appends to the log is
\* access_granted with method rfid when the scan is granted, access_denied
\* with method card_revoked when it is denied for a revoked card and
\* access_denied with method invalid_rfid when it is denied for a card that
\* matches no row; its method is in the method vocabulary.
C27_AuthLogMethod ==
  [][(last'.op \in AuthOps /\ Len(log') = Len(log) + 1) =>
       LET e == log'[Len(log')] IN
       /\ e.method \in MethodVocabulary
       /\ IF last'.success
          THEN e.event = "access_granted" /\ e.method = "rfid"
          ELSE /\ e.event = "access_denied"
               /\ last'.error \in {"card_revoked", "unknown_card"}
               /\ e.method = IF last'.error = "card_revoked"
                             THEN "card_revoked" ELSE "invalid_rfid"]_vars

(* ---------------- the alarm reported by the device --------------------- *)
\* C30: a door/alarm message appends exactly one entry to the log, tagged
\* alarm_triggered with the reported reason as its method, and leaves the
\* entries before it alone; it creates exactly one alert, of type door and
\* level CRITICAL, and sends exactly one push notification.
C30_AlarmLoggedAlertedNotified ==
  [][\A r \in AlarmReasons, t \in Clock :
       DoorAlarmMsg(r, Null, t) =>
         /\ Len(log') = Len(log) + 1
         /\ SubSeq(log', 1, Len(log)) = log
         /\ log'[Len(log')].event = "alarm_triggered"
         /\ log'[Len(log')].method = r
         /\ Len(alerts') = 1
         /\ alerts'[1].type = "door"
         /\ alerts'[1].level = "CRITICAL"
         /\ Len(pushes') = 1]_vars

\* an alarm has just been handled while a card is enrolled: it is the last
\* entry of the log, one CRITICAL alert exists and one push was sent
C30_Witness ==
  /\ last.op = "alarm"
  /\ log # <<>>
  /\ log[Len(log)].event = "alarm_triggered"
  /\ Len(alerts) = 1
  /\ alerts[1].level = "CRITICAL"
  /\ Len(pushes) = 1
  /\ cards # {}

(* ---------------- the single door -------------------------------------- *)
\* C28: in every reachable state, however the handlers that obtain the door
\* overlap, the Door table holds at most one row (none before the first
\* handler obtained it), that row carries the id every suspended handler
\* holds as its door, and it was created with the digest of the default PIN.
C28_OneDoor ==
  /\ Len(doors) <= 1
  /\ \A p \in Tasks :
       inflight[p].doorId # 0 =>
         doors # <<>> /\ inflight[p].doorId = doors[1].id
  /\ \A i \in 1..Len(doors) : doors[i].pinHash = sha256(DefaultPin)

(* ---------------- offline notifications -------------------------------- *)
\* C29: in every reachable state, however the sweeps overlap, no device has
\* been the subject of more than one offline notification since its last
\* heartbeat.
C29_OneOfflineNotification ==
  \A d \in Devices : offlineSent[d] <= 1

(* ---------------- the device's access reports -------------------------- *)
\* C31: a door/access message appends exactly one entry to the log, with
\* the event, the card UID and the method the device reported, and leaves
\* the entries before it alone; it sends one push notification when the
\* reported event is access_denied and none otherwise.
C31_AccessReportLogged ==
  [][\A r \in DeviceReports, x \in {Null, "ab"}, t \in Clock :
       (last'.op = "access" /\ DoorAccessMsg(r.event, x, r.method, t)) =>
         /\ Len(log') = Len(log) + 1
         /\ SubSeq(log', 1, Len(log)) = log
         /\ log'[Len(log')].event = r.event
         /\ log'[Len(log')].rfidUid = x
         /\ log'[Len(log')].method = r.method
         /\ Len(pushes') = IF r.event = "access_denied" THEN 1 ELSE 0]_vars

\* a denied access has just been reported for a card UID: it is in the log
\* and one notification was sent
C31_Witness ==
  /\ last.op = "access"
  /\ last.uid = "ab"
  /\ log # <<>>
  /\ log[Len(log)].event = "access_denied"
  /\ log[Len(log)].method = "invalid_pin"
  /\ Len(pushes) = 1

(* ---------------- the door's status reports ---------------------------- *)
\* C32 as stated: a door/status message sets the Door's online flag to the
\* value reported and its lastSeen to the time of the message, whether it
\* reports online or offline.
C32_StatusSetsFlagAndLastSeen ==
  [][\A b \in BOOLEAN :
       (last'.op = "status" /\ DoorStatusMsg(b)) =>
         /\ doors'[1].isOnline = b
         /\ doors'[1].lastSeen = time]_vars

\* C32, amended: a door/status message sets the Door's online flag to the
\* value reported; it sets the Door's lastSeen to the time of the message
\* when it reports online and leaves lastSeen as it was when it reports
\* offline; in both cases there is one Door row afterwards and the entry
\* 'door' of deviceLastSeen holds the time of the message.
C32_StatusSetsFlagSeenWhenOnline ==
  [][\A b \in BOOLEAN :
       (last'.op = "status" /\ DoorStatusMsg(b)) =>
         /\ Len(doors') = 1
         /\ doors'[1].isOnline = b
         /\ doors'[1].lastSeen = IF b THEN time
                                 ELSE getOrCreateDoor(doors)[1].lastSeen
         /\ MapIndex(deviceLastSeen', "door") # 0
         /\ deviceLastSeen'[MapIndex(deviceLastSeen', "door")].lastSeen = time
       ]_vars

\* the door has just reported offline, later than it last reported online:
\* its flag is off and its lastSeen is still the time of the online report
C32_Witness ==
  /\ last.op = "status"
  /\ ~last.success
  /\ doors # <<>>
  /\ ~doors[1].isOnline
  /\ doors[1].lastSeen >= 0
  /\ doors[1].lastSeen < time

(* ---------------- the lost-card report --------------------------------- *)
WhitelistsIn(box) ==
  {i \in 1..Len(box) : box[i].topic = "door/config/rfid"}

\* C33: POST /rfid/report-lost by a user who holds an ACTIVE card turns that
\* card REVOKED and leaves every other card alone, appends exactly one entry
\* to the log (card_reported_lost, method user_report, the user and the
\* card's UID), publishes exactly one door/config/rfid message, whose
\* whitelist is that of the cards still ACTIVE and so lacks that card's
\* digest, and creates exactly one alert.
C33_ReportLostRevokesAndTells ==
  [][\A u \in Users, t \in Clock :
       (/\ last'.op = "rfid/report-lost"
        /\ ActiveCardsOf(cards, u) # {}
        /\ ReportLostRoute(u, t)) =>
         \E c \in ActiveCardsOf(cards, u) :
           /\ cards' = (cards \ {c}) \cup {[c EXCEPT !.status = "REVOKED"]}
           /\ Len(log') = Len(log) + 1
           /\ log'[Len(log')].event = "card_reported_lost"
           /\ log'[Len(log')].method = "user_report"
           /\ log'[Len(log')].userId = u
           /\ log'[Len(log')].rfidUid = c.uid
           /\ Cardinality(WhitelistsIn(outbox')) = 1
           /\ \A i \in WhitelistsIn(outbox') :
                /\ outbox'[i].whitelist = getRfidWhitelist(doors', cards')
                /\ \A w \in outbox'[i].whitelist : w.uidHash # c.uidHash
           /\ Len(alerts') = 1]_vars

\* a user has just reported the card lost while another user holds an
\* ACTIVE card: the whitelist published names the other card only
C33_Witness ==
  /\ last.op = "rfid/report-lost"
  /\ last.status = 200
  /\ \E c \in cards : c.status = "REVOKED" /\ c.uid = last.uid
  /\ \E d \in cards : d.status = "ACTIVE"
  /\ \E i \in WhitelistsIn(outbox) : Cardinality(outbox[i].whitelist) = 1
  /\ Len(alerts) = 1

(* ---------------- a notification that cannot be delivered -------------- *)
\* C34: when the push notification fails while a device message is handled,
\* the log entry of that message is written all the same and the verdict
\* told to the device is the evaluation's: every door/rfid/result of the
\* scan carries allow as authenticateRfid decided it, a granted scan gets
\* exactly one result, with allow = true, and a door/access or door/alarm
\* report is in the log although its notification was not sent.
C34_PushFailureKeepsLogAndVerdict ==
  [][/\ \A p \in RfidPayloads, t \in Clock :
          (/\ last'.op \in AuthOps
           /\ ~(p.uid = Null /\ p.uidHash = Null)
           /\ (RfidAuthMsg(p, "push", t) \/ RfidCheckMsg(p, "push", t))) =>
            LET result == authenticateRfid(AuthHash(p)) IN
            /\ Len(log') = Len(log) + 1
            /\ SubSeq(log', 1, Len(log)) = log
            /\ log'[Len(log')].event =
                 IF result.allowed THEN "access_granted" ELSE "access_denied"
            /\ \A i \in ResultsIn(outbox') : outbox'[i].allow = result.allowed
            /\ outbox'[1].topic = "door/rfid/result"
            /\ outbox'[1].reason = result.reason
            /\ result.allowed => Cardinality(ResultsIn(outbox')) = 1
     /\ (last'.op \in {"access", "alarm"} /\ last'.error = "push_failed") =>
          /\ Len(log') = Len(log) + 1
          /\ SubSeq(log', 1, Len(log)) = log
          /\ log'[Len(log')].event =
               IF last'.op = "access" THEN "access_denied"
               ELSE "alarm_triggered"
          /\ pushes' = <<>>]_vars

\* the notification of a denied access reported by the door has just failed,
\* and the report is in the log
C34_Witness ==
  /\ last.op = "access"
  /\ last.error = "push_failed"
  /\ pushes = <<>>
  /\ log # <<>>
  /\ log[Len(log)].event = "access_denied"
  /\ log[Len(log)].method = "invalid_pin"

(* ---------------- the history query without a filter ------------------- *)
\* the door's entries a read of the log matches: those with the events evs
MatchingOf(evs) ==
  {i \in 1..Len(log) :
     log[i].doorId = getOrCreateDoor(doors)[1].id /\ log[i].event \in evs}

LogEventsOf(f) == IF f = Null THEN LoggedEvents ELSE {f}

\* the number of entries of M written later than entry i
LaterIn(M, i) ==
  Cardinality({j \in M : log[j].timestamp > log[i].timestamp})

\* r is page p, of l entries a page, of the entries M, latest first
IsPageOf(r, M, p, l) ==
  /\ r.total = Cardinality(M)
  /\ r.totalPages * l >= r.total
  /\ (r.totalPages - 1) * l < r.total
  /\ Len(r.logs) <= l
  /\ Len(r.logs) =
       Cardinality({i \in M : LaterIn(M, i) >= (p - 1) * l /\ LaterIn(M, i) < p * l})
  /\ \A k \in 1..Len(r.logs) :
       /\ r.logs[k].id \in M
       /\ r.logs[k].timestamp = log[r.logs[k].id].timestamp
       /\ r.logs[k].event = log[r.logs[k].id].event
       /\ LaterIn(M, r.logs[k].id) = (p - 1) * l + k - 1

PageLimits == {1, 2, 20, 50}

\* C36: for every log, every page p >= 1 and every limit l >= 1,
\* getAccessLogs and getDoorHistory return the matching entries latest
\* first, without the first (p-1)*l of them and at most l of them, with
\* total the number of matching entries and totalPages = ceil(total / l);
\* so does the page the last GET /logs or GET /history returned.
C36_LogReadsArePaged ==
  /\ [](\A p \in 1..3, l \in PageLimits :
          /\ \A f \in EventFilters :
               IsPageOf(getDoorHistory(p, l, f),
                        MatchingOf(HistoryEvents(f)), p, l)
          /\ \A f \in LogFilters :
               IsPageOf(getAccessLogs(p, l, f),
                        MatchingOf(LogEventsOf(f)), p, l))
  /\ [][\A p \in 1..2, l \in 0..1 :
          /\ \A f \in LogFilters :
               (last'.op = "logs" /\ LogsRoute(p, l, f)) =>
                 IsPageOf(history', MatchingOf(LogEventsOf(f)), p,
                          IF l = 0 THEN 50 ELSE l)
          /\ \A f \in EventFilters :
               (last'.op = "history" /\ HistoryRoute(p, l, f)) =>
                 IsPageOf(history', MatchingOf(HistoryEvents(f)), p,
                          IF l = 0 THEN 20 ELSE l)]_vars

\* GET /logs?page=2&limit=1 has returned the older of the door's two entries
C36_Witness ==
  /\ last.op = "logs"
  /\ last.uid = Null
  /\ history.page = 2
  /\ history.total = 2
  /\ history.totalPages = 2
  /\ Len(history.logs) = 1
  /\ history.logs[1].timestamp = 1

(* ---------------- a scan against start and cancel ---------------------- *)
\* C37: under every interleaving of start-enrollment, cancel-enrollment and
\* door/rfid/check handling, the step of processEnrollmentScan that creates
\* the card is taken only while the door is in enrollment mode and creates
\* it for the user who is the enrollment target at that moment, and the
\* step of a scan for user u that leaves enrollment mode never clears an
\* enrollment whose target is another user (one started after the scan read
\* the door).
C37_ScanWritesForCurrentTarget ==
  [][\A p \in Tasks :
       /\ (At(p, "rfid/check", "create") /\ inflight'[p].pc = "exit") =>
            /\ Enrolling
            /\ Target = inflight[p].userId
       /\ (/\ inflight[p].op = "rfid/check"
           /\ inflight[p].pc \in {"exit", "conflictExit"}
           /\ inflight'[p] # inflight[p]
           /\ Enrolling) =>
            Target = inflight[p].userId]_vars

(* ---------------- the answer to an enrollment scan --------------------- *)
EnrollmentResultsIn(box) ==
  {i \in 1..Len(box) : box[i].topic = "door/enrollment/result"}

\* C38: every door/rfid/check scan handled in enrollment mode is answered
\* by exactly one door/enrollment/result message, and that message says
\* success exactly when the scan created a card.
C38_OneTruthfulEnrollmentResult ==
  [][last'.op = "rfid/check:enroll" =>
       /\ Cardinality(EnrollmentResultsIn(outbox')) = 1
       /\ \A i \in EnrollmentResultsIn(outbox') :
            outbox'[i].success <=> nextCardId' = nextCardId + 1]_vars

(* ---------------- a heartbeat during the sweep ------------------------- *)
\* C39: a device is removed from deviceLastSeen only when its most recent
\* last-seen value is older than the offline threshold: a device whose
\* heartbeat (or door/status) was recorded while a sweep was suspended on
\* sending its offline notification is still tracked, with that fresh
\* value, once the sweep goes on.
C39_FreshDeviceStaysTracked ==
  [][\A i \in 1..Len(deviceLastSeen) :
       LET e == deviceLastSeen[i]
           k == MapIndex(deviceLastSeen', e.deviceId)
       IN
       ~Stale(e, time) => (k # 0 /\ deviceLastSeen'[k].lastSeen >= e.lastSeen)]_vars

(* ---------------- card management that is refused ---------------------- *)
\* C40: a refused card-management request writes nothing: POST /rfid/revoke
\* and POST /rfid/report-lost for a user without an ACTIVE card, and
\* POST /rfid for a user who has an ACTIVE card or with a UID whose digest an
\* ACTIVE card holds, are each answered with an error and leave the cards,
\* the card ids and the access log as they were, and publish nothing.
C40_RefusedRequestsWriteNothing ==
  [][/\ \A u \in Users :
          (/\ last'.op = "rfid/revoke"
           /\ ActiveCardsOf(cards, u) = {}
           /\ RevokeRoute(u)) =>
            /\ last'.status = 400
            /\ revokeUserCard(u).threw
            /\ cards' = cards /\ log' = log /\ outbox' = <<>>
     /\ \A u \in Users, t \in Clock :
          (/\ last'.op = "rfid/report-lost"
           /\ ActiveCardsOf(cards, u) = {}
           /\ ReportLostRoute(u, t)) =>
            /\ last'.status = 400
            /\ reportLostCard(u, t).threw
            /\ cards' = cards /\ log' = log /\ outbox' = <<>>
            /\ alerts' = <<>>
     /\ \A u \in Users, x \in RawUids :
          (/\ last'.op = "rfid/add"
           /\ \/ ActiveCardsOf(cards, u) # {}
              \/ \E c \in cards : c.status = "ACTIVE" /\ c.uidHash = Digest(x)
           /\ AddRfidRoute(u, x)) =>
            /\ last'.status = 400
            /\ addRfidCard(u, x).threw
            /\ cards' = cards /\ nextCardId' = nextCardId
            /\ log' = log /\ outbox' = <<>>]_vars

\* POST /rfid has just been refused because another user's ACTIVE card holds
\* the UID, and that card is as it was
C40_Witness ==
  /\ last.op = "rfid/add"
  /\ last.status = 400
  /\ last.error = "uid_in_use"
  /\ \E c \in cards : c.status = "ACTIVE" /\ c.uidHash = Digest(last.uid)

====
